---------------------------- MODULE Spec2Model ----------------------------
(***************************************************************************)
(* Scout: the abbreviation extractor (core/extractor.py, class Extractor). *)
(* Texts are sequences of one-character strings; the regular expressions   *)
(* of the source are kept as data and run by a backtracking matcher with   *)
(* the priorities of Python's re module (leftmost, greedy unless lazy).    *)
(***************************************************************************)
EXTENDS Integers, Sequences, FiniteSets, TLC

(***************************** characters **********************************)

Chars(s) == [i \in 1..Len(s) |-> SubSeq(s, i, i)]

RECURSIVE Str(_)
Str(cs) == IF Len(cs) = 0 THEN "" ELSE cs[1] \o Str(Tail(cs))

UpperSeq == Chars("ABCDEFGHIJKLMNOPQRSTUVWXYZ")
LowerSeq == Chars("abcdefghijklmnopqrstuvwxyz")
DigitSeq == Chars("0123456789")

Range(f) == { f[i] : i \in DOMAIN f }

Upper == Range(UpperSeq)
Lower == Range(LowerSeq)
Digit == Range(DigitSeq)
Letter == Upper \cup Lower

\* \w and \s of the re module, on the characters the texts use
WordChar == Letter \cup Digit \cup {"_"}
Space == {" ", "\n", "\t", "\r", "\f"}

\* the em dash of the character class [:\-—]
EmDash == "EMDASH"
ColonDash == {":", "-", EmDash}

IndexIn(seq, c) == CHOOSE i \in DOMAIN seq : seq[i] = c

\* str.lower() and str.upper() of one character
ToLower(c) == IF c \in Upper THEN LowerSeq[IndexIn(UpperSeq, c)] ELSE c
ToUpper(c) == IF c \in Lower THEN UpperSeq[IndexIn(LowerSeq, c)] ELSE c

\* the characters a class matches under re.IGNORECASE
FoldCase(S) == S \cup { ToLower(c) : c \in S } \cup { ToUpper(c) : c \in S }

Min(a, b) == IF a < b THEN a ELSE b
Max(a, b) == IF a > b THEN a ELSE b

(************************ regular expressions ******************************)
(* A pattern is a sequence of nodes:                                       *)
(*   <<"in", S>>   one character of S        <<"not", S>>  one not in S    *)
(*   <<"lit", cs>> the characters of cs, each given as the set it matches  *)
(*   <<"wb">>      \b                        <<"end">>     $               *)
(*   <<"open">>, <<"close">>                 the bounds of group 1         *)
(*   <<"alt", p, q>>                         p|q                           *)
(*   <<"rep", p, lo, hi, greedy>>            p{lo,hi}; hi = -1: no limit   *)
(***************************************************************************)

In(S) == <<"in", S>>
NotIn(S) == <<"not", S>>
WB == <<"wb">>
EndOfText == <<"end">>
Open == <<"open">>
Close == <<"close">>
Alt(p, q) == <<"alt", p, q>>
Rep(p, lo, hi) == <<"rep", p, lo, hi, TRUE>>
Lazy(p, lo, hi) == <<"rep", p, lo, hi, FALSE>>

\* re.escape(s): the characters of s, literally
Lit(cs) == << <<"lit", [i \in 1..Len(cs) |-> {cs[i]}]>> >>
\* the same under re.IGNORECASE
LitI(cs) == << <<"lit", [i \in 1..Len(cs) |-> FoldCase({cs[i]})]>> >>

NoMatch == [ok |-> FALSE, start |-> 0, end |-> 0, gs |-> 0, ge |-> 0]

IsWord(text, i) == i >= 1 /\ i <= Len(text) /\ text[i] \in WordChar

\* \b before the character at index i
AtWordBoundary(text, i) == IsWord(text, i - 1) # IsWord(text, i)

\* $ before index i: the end of the text, or just before a final newline
AtEnd(text, i) ==
    \/ i = Len(text) + 1
    \/ i = Len(text) /\ text[i] = "\n"

\* whether the one-character node h matches the character c
Accepts(h, c) == IF h[1] = "in" THEN c \in h[2] ELSE c \notin h[2]

IsClass(p) == Len(p) = 1 /\ p[1][1] \in {"in", "not"}

Least(S) == CHOOSE x \in S : \A y \in S : x <= y
Greatest(S) == CHOOSE x \in S : \A y \in S : x >= y

\* The first way, in backtracking order, to match pattern p at index i.
\* The repetition of a single character class is tried count by count, the
\* longest run first when greedy and the shortest first when lazy.
RECURSIVE MatchAt(_, _, _, _)
MatchAt(p, text, i, m) ==
    IF Len(p) = 0 THEN [m EXCEPT !.ok = TRUE, !.end = i]
    ELSE
      LET h == Head(p)
          t == Tail(p)
      IN
      CASE h[1] \in {"in", "not"} ->
             IF i <= Len(text) /\ Accepts(h, text[i])
             THEN MatchAt(t, text, i + 1, m) ELSE NoMatch
        [] h[1] = "lit" ->
             IF /\ i + Len(h[2]) - 1 <= Len(text)
                /\ \A k \in 1..Len(h[2]) : text[i + k - 1] \in h[2][k]
             THEN MatchAt(t, text, i + Len(h[2]), m) ELSE NoMatch
        [] h[1] = "wb" ->
             IF AtWordBoundary(text, i) THEN MatchAt(t, text, i, m) ELSE NoMatch
        [] h[1] = "end" ->
             IF AtEnd(text, i) THEN MatchAt(t, text, i, m) ELSE NoMatch
        [] h[1] = "open" -> MatchAt(t, text, i, [m EXCEPT !.gs = i])
        [] h[1] = "close" -> MatchAt(t, text, i, [m EXCEPT !.ge = i])
        [] h[1] = "alt" ->
             LET first == MatchAt(h[2] \o t, text, i, m)
             IN IF first.ok THEN first ELSE MatchAt(h[3] \o t, text, i, m)
        [] h[1] = "rep" /\ IsClass(h[2]) ->
             LET most == IF h[4] = -1 THEN Len(text) + 1 - i
                         ELSE Min(h[4], Len(text) + 1 - i)
                 counts == { c \in h[3]..most :
                               /\ \A k \in 0..(c - 1) : Accepts(h[2][1], text[i + k])
                               /\ MatchAt(t, text, i + c, m).ok }
             IN IF counts = {} THEN NoMatch
                ELSE MatchAt(t, text,
                             i + (IF h[5] THEN Greatest(counts) ELSE Least(counts)), m)
        [] h[1] = "rep" /\ ~IsClass(h[2]) ->
             LET again == <<"rep", h[2], Max(h[3] - 1, 0),
                            IF h[4] = -1 THEN -1 ELSE h[4] - 1, h[5]>>
                 more == IF h[4] = 0 THEN NoMatch
                         ELSE MatchAt(h[2] \o <<again>> \o t, text, i, m)
                 stop == IF h[3] > 0 THEN NoMatch ELSE MatchAt(t, text, i, m)
             IN IF h[5]
                THEN (IF more.ok THEN more ELSE stop)
                ELSE (IF stop.ok THEN stop ELSE more)

\* The leftmost match that starts in lo..hi (found by halving the range, so
\* that the evaluation stays shallow)
RECURSIVE FirstIn(_, _, _, _)
FirstIn(p, text, lo, hi) ==
    IF lo > hi THEN NoMatch
    ELSE IF lo = hi THEN MatchAt(p, text, lo, [NoMatch EXCEPT !.start = lo])
    ELSE LET mid == (lo + hi) \div 2
             left == FirstIn(p, text, lo, mid)
         IN IF left.ok THEN left ELSE FirstIn(p, text, mid + 1, hi)

\* re.search from index i on
SearchFrom(p, text, i) == FirstIn(p, text, i, Len(text) + 1)

Search(p, text) == SearchFrom(p, text, 1)

\* Up to 2^levels successive non-overlapping matches from index i on, and
\* the index the search would go on from (0 when the text is exhausted)
RECURSIVE Scan(_, _, _, _)
Scan(p, text, i, levels) ==
    LET One(r) ==
            IF r.ok
            THEN [found |-> <<r>>,
                  next |-> IF r.end > r.start THEN r.end ELSE r.end + 1]
            ELSE [found |-> <<>>, next |-> 0]
        Both(a, b) == [found |-> a.found \o b.found, next |-> b.next]
        Then(a) == Both(a, Scan(p, text, a.next, levels - 1))
    IN IF i = 0 THEN [found |-> <<>>, next |-> 0]
       ELSE IF levels = 0 THEN One(SearchFrom(p, text, i))
       ELSE Then(Scan(p, text, i, levels - 1))

RECURSIVE Log2(_)
Log2(n) == IF n <= 1 THEN 0 ELSE 1 + Log2((n + 1) \div 2)

\* re.finditer from index i on: the successive non-overlapping matches
FindIter(p, text, i) == Scan(p, text, i, Log2(Len(text) + 2)).found

Group0(text, r) == SubSeq(text, r.start, r.end - 1)
Group1(text, r) == SubSeq(text, r.gs, r.ge - 1)

\* str.find(sub): the 0-based offset of the first occurrence of sub
RECURSIVE FindFrom(_, _, _)
FindFrom(text, sub, i) ==
    IF i + Len(sub) - 1 > Len(text) THEN -1
    ELSE IF SubSeq(text, i, i + Len(sub) - 1) = sub THEN i - 1
    ELSE FindFrom(text, sub, i + 1)

Find(text, sub) == FindFrom(text, sub, 1)

\* `sub in text'
Contains(text, sub) == Find(text, sub) >= 0

\* str.replace(c, ''), for one character c
Remove(cs, c) == SelectSeq(cs, LAMBDA x : x # c)

(***************************** candidates **********************************)

ABBREV_PATTERN == <<WB, In(Upper), Rep(<<In(Upper \cup Digit)>>, 1, 9), WB>>

DOTTED_PATTERN ==
    <<WB, In(Upper), Rep(<<In({"."}), In(Upper)>>, 1, -1),
      Rep(<<In({"."})>>, 0, 1), WB>>

HYPHENATED_PATTERN ==
    <<WB, In(Upper), Rep(<<In(Upper \cup Digit)>>, 0, -1),
      Rep(<<In({"-"}), Rep(<<In(Upper \cup Digit)>>, 1, -1)>>, 1, -1), WB>>

\* lines 316-336: the (token, offset) pairs of the three pattern families
StandardMatches(text) ==
    LET Pairs(ms) ==
            [k \in 1..Len(ms) |->
               [abbrev |-> Str(Group0(text, ms[k])), position |-> ms[k].start - 1]]
    IN Pairs(FindIter(ABBREV_PATTERN, text, 1))

DottedMatches(text, min_length, max_length) ==
    LET ok(r) == LET normalized == Remove(Group0(text, r), ".")
                 IN min_length <= Len(normalized) /\ Len(normalized) <= max_length
        Pairs(kept) ==
            [k \in 1..Len(kept) |->
               [abbrev |-> Str(Remove(Group0(text, kept[k]), ".")),
                position |-> Find(text, Group0(text, kept[k]))]]
    IN Pairs(SelectSeq(FindIter(DOTTED_PATTERN, text, 1), ok))

HyphenatedMatches(text, min_length, max_length) ==
    LET ok(r) == LET stripped == Remove(Group0(text, r), "-")
                 IN min_length <= Len(stripped) /\ Len(stripped) <= max_length
        Pairs(kept) ==
            [k \in 1..Len(kept) |->
               [abbrev |-> Str(Group0(text, kept[k])),
                position |-> Find(text, Group0(text, kept[k]))]]
    IN Pairs(SelectSeq(FindIter(HYPHENATED_PATTERN, text, 1), ok))

FindMatches(text, min_length, max_length) ==
    StandardMatches(text) \o DottedMatches(text, min_length, max_length)
        \o HyphenatedMatches(text, min_length, max_length)

\* Counter([m[0] for m in matches])[abbrev]
CountOf(matches, abbrev) ==
    Cardinality({ k \in DOMAIN matches : matches[k].abbrev = abbrev })

(***************************** exclusion ***********************************)

STOP_WORDS ==
    { "THE", "BE", "TO", "OF", "AND", "A", "IN", "THAT", "HAVE", "I", "IT", "FOR",
      "NOT", "ON", "WITH", "HE", "AS", "YOU", "DO", "AT", "THIS", "BUT", "HIS",
      "BY", "FROM", "THEY", "WE", "SAY", "HER", "SHE", "OR", "AN", "WILL", "MY",
      "ONE", "ALL", "WOULD", "THERE", "THEIR", "WHAT", "SO", "UP", "OUT", "IF",
      "ABOUT", "WHO", "GET", "WHICH", "GO", "ME", "WHEN", "MAKE", "CAN", "LIKE",
      "TIME", "NO", "JUST", "HIM", "KNOW", "TAKE", "PEOPLE", "INTO", "YEAR",
      "YOUR", "GOOD", "SOME", "COULD", "THEM", "SEE", "OTHER", "THAN", "THEN",
      "NOW", "LOOK", "ONLY", "COME", "ITS", "OVER", "THINK", "ALSO", "BACK",
      "AFTER", "USE", "TWO", "HOW", "OUR", "WORK", "FIRST", "WELL", "WAY", "EVEN",
      "NEW", "WANT", "BECAUSE", "ANY", "THESE", "GIVE", "DAY", "MOST", "US" }

ADDITIONAL_EXCLUDES ==
    { "ELEVEN", "TWELVE", "THIRTEEN", "FOURTEEN", "FIFTEEN", "SIXTEEN",
      "SEVENTEEN", "EIGHTEEN", "NINETEEN", "TWENTY", "THIRTY", "FORTY", "FIFTY",
      "SIXTY", "SEVENTY", "EIGHTY", "NINETY", "HUNDRED", "THOUSAND", "MILLION",
      "BILLION", "ELEVENTH", "TWELFTH", "THIRTEENTH", "FOURTEENTH", "FIFTEENTH",
      "SIXTEENTH", "SEVENTEENTH", "EIGHTEENTH", "NINETEENTH", "TWENTIETH",
      "PARLIAMENT", "SENATE", "ASSEMBLY", "COUNCIL", "COURT", "JUDGE", "JUSTICE",
      "PRESIDENT", "MINISTER", "SECRETARY", "OFFICER", "COMMISSION", "COMMITTEE",
      "BOARD", "AUTHORITY", "DEPARTMENT", "AGENCY", "SERVICE", "REPUBLIC",
      "CONSTITUTION", "COUNTY", "NATIONAL", "PUBLIC", "EXECUTIVE", "LEGISLATIVE",
      "JUDICIAL", "FEDERAL", "LOCAL", "ELECTORAL", "DEVOLVED", "PRINCIPLES",
      "RIGHTS", "LAWS", "OFFICES", "OATH", "REVENUE", "FINANCE", "BUDGET",
      "KENYA", "AMERICA", "AMERICAN", "EUROPE", "EUROPEAN", "ASIA", "ASIAN",
      "AFRICA", "AFRICAN", "AUSTRALIA", "CHINA", "CHINESE", "INDIA", "INDIAN",
      "JAPAN", "JAPANESE", "KOREA", "KOREAN", "RUSSIA", "RUSSIAN", "FRANCE",
      "FRENCH", "GERMANY", "GERMAN", "ITALY", "ITALIAN", "SPAIN", "SPANISH",
      "CANADA", "CANADIAN", "MEXICO", "MEXICAN", "BRAZIL", "ENGLAND", "ENGLISH",
      "BRITISH", "LONDON", "PARIS", "TOKYO", "NAIROBI", "MONDAY", "TUESDAY",
      "WEDNESDAY", "THURSDAY", "FRIDAY", "SATURDAY", "SUNDAY", "JANUARY",
      "FEBRUARY", "MARCH", "APRIL", "JUNE", "JULY", "AUGUST", "SEPTEMBER",
      "OCTOBER", "NOVEMBER", "DECEMBER", "LAND", "DEBT", "ROLE", "SEAL", "FLAG",
      "ARMS", "COAT", "GOD" }

get_excluded_words == STOP_WORDS \cup ADDITIONAL_EXCLUDES

HasDigit(cs) == \E i \in DOMAIN cs : cs[i] \in Digit

\* the three glossary_patterns, under re.IGNORECASE
Word(s) == LitI(Chars(s))
AbbreviationsOrAcronyms == <<Alt(Word("abbreviations"), Word("acronyms"))>>

GlossaryPatterns ==
    << <<Alt(Word("glossary"),
             <<Alt(Word("abbreviations"),
                   <<Alt(Word("acronyms"), Word("definitions"))>>)>>),
         Rep(<<In(Space)>>, 0, -1), In({"\n"})>>,
       <<Rep(Word("list of "), 0, 1)>> \o AbbreviationsOrAcronyms,
       Word("appendix") \o <<Rep(<<NotIn({"\n"})>>, 0, -1)>>
           \o AbbreviationsOrAcronyms >>

GlossaryWindow == 500

_is_in_glossary_section(text, abbrev) ==
    LET glossary_text(glossary_start) ==
            SubSeq(text, glossary_start,
                   Min(Len(text), glossary_start + GlossaryWindow - 1))
        After(match) ==
            match.ok /\ Contains(glossary_text(match.end), abbrev)
    IN \E k \in DOMAIN GlossaryPatterns : After(Search(GlossaryPatterns[k], text))

\* the three definition-indicating patterns of lines 293-297
LikelyPatterns(word) ==
    << <<In({"("}), Rep(<<NotIn({")"})>>, 0, -1)>> \o Lit(word)
           \o <<Rep(<<NotIn({")"})>>, 0, -1), In({")"})>>,
       Lit(word) \o <<Rep(<<In(Space)>>, 0, -1), In(ColonDash)>>,
       <<In(ColonDash), Rep(<<In(Space)>>, 0, -1)>> \o Lit(word) >>

\* _is_likely_abbreviation after the exclusion test and the entity guard
HasEvidence(word, text) ==
    \/ HasDigit(word)
    \/ \E k \in 1..3 : Search(LikelyPatterns(word)[k], text).ok
    \/ _is_in_glossary_section(text, word)
    \/ (2 <= Len(word) /\ Len(word) <= 4)

\* Whether re.search(rf'.{{0,100}}\b{word}\b.{{0,100}}', text) of
\* _is_named_entity matches: both windows may be empty, so it does exactly
\* when the word stands between word boundaries somewhere in the text.
EntityContext(word, text) == Search(<<WB>> \o Lit(word) \o <<WB>>, text).ok

(***************************** definitions *********************************)

\* Python's None; every definition the locator returns is a non-empty string
None == ""

\* re.sub(p, repl, text)
RECURSIVE Sub(_, _, _, _)
Sub(p, repl, text, i) ==
    LET Replaced(r) ==
            IF ~r.ok THEN SubSeq(text, i, Len(text))
            ELSE SubSeq(text, i, r.start - 1) \o repl \o Sub(p, repl, text, r.end)
    IN Replaced(SearchFrom(p, text, i))

\* str.strip()
RECURSIVE Strip(_)
Strip(cs) ==
    IF Len(cs) = 0 THEN cs
    ELSE IF cs[1] \in Space THEN Strip(Tail(cs))
    ELSE IF cs[Len(cs)] \in Space THEN Strip(SubSeq(cs, 1, Len(cs) - 1))
    ELSE cs

\* str.split(): the maximal runs of non-whitespace characters
SplitWords(cs) ==
    LET Words(ms) == [k \in 1..Len(ms) |-> Group0(cs, ms[k])]
    IN Words(FindIter(<<Rep(<<NotIn(Space)>>, 1, -1)>>, cs, 1))

\* ' '.join(words)
RECURSIVE Join(_)
Join(words) ==
    IF Len(words) = 0 THEN <<>>
    ELSE IF Len(words) = 1 THEN words[1]
    ELSE words[1] \o <<" ">> \o Join(Tail(words))

\* ' '.join(definition.split()[:10]).strip()
FirstTenWords(definition) ==
    LET FirstTen(words) == SubSeq(words, 1, Min(10, Len(words)))
    IN Strip(Join(FirstTen(SplitWords(definition))))

\* str.isupper(): some cased character, and none of them lowercase
IsUpper(cs) ==
    /\ \E i \in DOMAIN cs : cs[i] \in Letter
    /\ \A i \in DOMAIN cs : cs[i] \notin Lower

MarkdownHeader ==
    <<In({"\n"}), Rep(<<In({"#"})>>, 1, -1), Rep(<<In(Space)>>, 1, -1),
      Lazy(<<NotIn({"\n"})>>, 0, -1), In({"\n"})>>

BlankLines == <<Rep(<<In({"\n"})>>, 2, -1)>>

\* lines 398-399
CleanText(text) ==
    Sub(BlankLines, <<"\n">>, Sub(MarkdownHeader, <<"\n">>, text, 1), 1)

\* [A-Z][a-z]+(?:\s+[A-Z]?[a-z]+){0,7}
Phrase ==
    <<In(Upper), Rep(<<In(Lower)>>, 1, -1),
      Rep(<<Rep(<<In(Space)>>, 1, -1), Rep(<<In(Upper)>>, 0, 1),
            Rep(<<In(Lower)>>, 1, -1)>>, 0, 7)>>

\* ([A-Z][^\n\.]+?)(?:[\n\.]|$), with the first class as given
Clause(first) ==
    <<Open, In(first), Lazy(<<NotIn({"\n", "."})>>, 1, -1), Close,
      Alt(<<In({"\n", "."})>>, <<EndOfText>>)>>

pattern1(abbrev) ==
    <<Open>> \o Phrase \o <<Close, Rep(<<In(Space)>>, 0, -1), In({"("})>>
        \o Lit(abbrev) \o <<In({")"})>>

pattern2(abbrev) ==
    Lit(abbrev) \o <<Rep(<<In(Space)>>, 0, -1), In({"("}), Open>> \o Phrase
        \o <<Close, In({")"})>>

pattern3(abbrev) ==
    Lit(abbrev) \o <<Rep(<<In(Space)>>, 0, -1), In(ColonDash),
                     Rep(<<In(Space)>>, 0, -1)>> \o Clause(Upper)

\* compiled with re.IGNORECASE
pattern4(abbrev) ==
    LitI(abbrev) \o <<Rep(<<In(Space)>>, 1, -1),
                      Alt(Word("stands for"), Word("means")),
                      Rep(<<In(Space)>>, 1, -1)>> \o Clause(FoldCase(Upper))

\* re.split(r'[.!?]+', text)
RECURSIVE SplitSentences(_, _)
SplitSentences(text, i) ==
    LET Pieces(r) ==
            IF ~r.ok THEN <<SubSeq(text, i, Len(text))>>
            ELSE <<SubSeq(text, i, r.start - 1)>> \o SplitSentences(text, r.end)
    IN Pieces(SearchFrom(<<Rep(<<In({".", "!", "?"})>>, 1, -1)>>, text, i))

\* \b[A-Z][a-z]+(?:\s+[A-Z][a-z]+)*
CapitalizedWords ==
    <<WB, In(Upper), Rep(<<In(Lower)>>, 1, -1),
      Rep(<<Rep(<<In(Space)>>, 1, -1), In(Upper), Rep(<<In(Lower)>>, 1, -1)>>,
          0, -1)>>

RECURSIVE Flatten(_)
Flatten(ss) == IF Len(ss) = 0 THEN <<>> ELSE ss[1] \o Flatten(Tail(ss))

\* the first element of seq that is not None, or None
FirstFound(seq) ==
    IF \A k \in DOMAIN seq : seq[k] = None THEN None
    ELSE seq[CHOOSE k \in DOMAIN seq :
                 seq[k] # None /\ \A j \in 1..(k - 1) : seq[j] = None]

\* the candidate of strategy 1 (lines 403-409), None when it has none
Strategy1(text, abbrev) ==
    LET Candidate1(m, d) ==
            IF m.ok /\ Len(d) > 3 /\ ~IsUpper(d) THEN Str(d) ELSE None
        Found(m) == Candidate1(m, Strip(Group1(text, m)))
    IN Found(Search(pattern1(abbrev), text))

\* strategy 2 (lines 412-417)
Strategy2(text, abbrev) ==
    LET Candidate2(m, d) ==
            IF m.ok /\ Len(d) > 3 /\ ~IsUpper(d) THEN Str(d) ELSE None
        Found(m) == Candidate2(m, Strip(Group1(text, m)))
    IN Found(Search(pattern2(abbrev), text))

\* strategy 3 (lines 421-429)
Strategy3(text, abbrev) ==
    LET Candidate3(m, result) ==
            IF m.ok /\ Len(result) > 3 THEN Str(result) ELSE None
        Found(m) == Candidate3(m, FirstTenWords(Strip(Group1(text, m))))
    IN Found(Search(pattern3(abbrev), text))

\* strategy 4 (lines 432-437), which has no guard
Strategy4(text, abbrev) ==
    LET Found(m) ==
            IF m.ok THEN Str(FirstTenWords(Strip(Group1(text, m)))) ELSE None
    IN Found(Search(pattern4(abbrev), text))

\* a locator that finds nothing
Undefined(fullText, abbrev) == None

_find_first_letter_match(text, abbrev) ==
    LET first_letters(sequence) == [k \in 1..Len(sequence) |-> sequence[k][1]]
        Result(sequence, result) ==
            IF first_letters(sequence) = abbrev /\ Len(result) > Len(abbrev) + 2
            THEN Str(result) ELSE None
        Window(sequence) == Result(sequence, Join(sequence))
        Windows(word_list) ==
            [i \in 1..Max(0, Len(word_list) - Len(abbrev) + 1) |->
               Window(SubSeq(word_list, i, i + Len(abbrev) - 1))]
        FromWords(word_sequence) == Windows(SplitWords(word_sequence))
        FromMatches(sentence, words) ==
            Flatten([k \in 1..Len(words) |->
                       FromWords(Group0(sentence, words[k]))])
        FromSentence(sentence) ==
            FromMatches(sentence, FindIter(CapitalizedWords, sentence, 1))
        FromSentences(sentences) ==
            Flatten([s \in 1..Len(sentences) |-> FromSentence(sentences[s])])
    IN FirstFound(FromSentences(SplitSentences(text, 1)))

\* a locator that tries the colon/dash clause before the parentheses
ClauseFirst(fullText, abbrev) ==
    LET Located(text) ==
            FirstFound(<<Strategy3(text, abbrev), Strategy1(text, abbrev),
                         Strategy2(text, abbrev), Strategy4(text, abbrev),
                         _find_first_letter_match(text, abbrev)>>)
    IN Located(CleanText(fullText))

_find_definition(fullText, abbrev) ==
    LET Captured(text, m) == Strip(Group1(text, m))
        Pattern1(m, d) == m.ok /\ Len(d) > 3 /\ ~IsUpper(d)
        Pattern3(m, d) == m.ok /\ Len(d) > 3
        Definition(text, m1, d1, m2, d2, m3, d3, m4) ==
            IF Pattern1(m1, d1) THEN Str(d1)
            ELSE IF Pattern1(m2, d2) THEN Str(d2)
            ELSE IF Pattern3(m3, d3) THEN Str(d3)
            ELSE IF m4.ok THEN Str(FirstTenWords(Captured(text, m4)))
            ELSE _find_first_letter_match(text, abbrev)
        Matched(text, m1, m2, m3, m4) ==
            Definition(text, m1, Captured(text, m1), m2, Captured(text, m2),
                       m3, FirstTenWords(Captured(text, m3)), m4)
        Located(text) ==
            Matched(text, Search(pattern1(abbrev), text),
                    Search(pattern2(abbrev), text),
                    Search(pattern3(abbrev), text),
                    Search(pattern4(abbrev), text))
    IN Located(CleanText(fullText))

(****************************** scoring ************************************)
(* A score s is the integer 100*round(100*s) + d, where d is the distance  *)
(* of the double s from the double nearest to round(100*s)/100 in units of *)
(* 2^-54: the order of the scores is the order of the doubles.             *)
(* FloatSum gives the double sums x + c the scorer can form, c in          *)
(* hundredths: 0.5 + 0.1 - 0.2 is 0.39999999999999997, below 0.4.          *)
(***************************************************************************)

FloatSum ==
    <<5000, -20>> :> 3000 @@ <<5000, 5>> :> 5500 @@ <<5000, 10>> :> 6000
    @@ <<5000, 30>> :> 8000 @@ <<6000, -20>> :> 3999 @@ <<6000, 5>> :> 6500
    @@ <<6000, 10>> :> 7000 @@ <<7000, -20>> :> 4999 @@ <<7000, 5>> :> 7500
    @@ <<8000, -20>> :> 6002 @@ <<8000, 5>> :> 8502 @@ <<8000, 10>> :> 9000
    @@ <<8000, 15>> :> 9502 @@ <<8000, 20>> :> 10000 @@ <<9000, -20>> :> 7000
    @@ <<9000, 5>> :> 9502 @@ <<9000, 10>> :> 10000 @@ <<9502, -20>> :> 7500
    @@ <<9502, 5>> :> 10000 @@ <<9502, 10>> :> 10500 @@ <<9502, 15>> :> 11000
    @@ <<9502, 20>> :> 11504 @@ <<10000, -20>> :> 8000 @@ <<10000, 5>> :> 10500
    @@ <<10000, 10>> :> 11000 @@ <<10500, -20>> :> 8502 @@ <<10500, 5>> :> 11000
    @@ <<10500, 10>> :> 11504 @@ <<11000, -20>> :> 9002 @@ <<11000, 5>> :> 11504
    @@ <<11000, 10>> :> 12004 @@ <<11000, 20>> :> 13000 @@ <<11504, -20>> :> 9504
    @@ <<11504, 5>> :> 12004 @@ <<11504, 10>> :> 12504 @@ <<12004, -20>> :> 10004
    @@ <<12004, 5>> :> 12504 @@ <<12004, 10>> :> 13004 @@ <<12504, -20>> :> 10504
    @@ <<12504, 5>> :> 13004 @@ <<12504, 10>> :> 13504 @@ <<13000, -20>> :> 11000
    @@ <<13000, 5>> :> 13500 @@ <<13000, 10>> :> 14004 @@ <<13004, -20>> :> 11004
    @@ <<13004, 5>> :> 13504 @@ <<13004, 10>> :> 14008 @@ <<13504, -20>> :> 11508
    @@ <<13504, 5>> :> 14008 @@ <<14004, -20>> :> 12004 @@ <<14004, 5>> :> 14504
    @@ <<14004, 10>> :> 15004 @@ <<14008, -20>> :> 12008 @@ <<14008, 5>> :> 14508
    @@ <<15004, -20>> :> 13004 @@ <<15004, 5>> :> 15504

FloatAdd(score, hundredths) == FloatSum[<<score, hundredths>>]

\* a score left as the sum comes out
Unclamped(score) == score

\* min(1.0, max(0.0, score))
Clamp(score) == Min(10000, Max(0, score))

\* re.search(rf'\b<keyword>\b.*{re.escape(definition)}', text, re.IGNORECASE)
Confirms(keyword, definition, text) ==
    Search(<<WB>> \o Word(keyword) \o <<WB, Rep(<<NotIn({"\n"})>>, 0, -1)>>
               \o LitI(Chars(definition)), text).ok

(******************************* corpus ************************************)
(* The files a scan hands to extract_from_text: (source_file, text).       *)
(***************************************************************************)

RECURSIVE Times(_, _)
Times(s, n) == IF n = 0 THEN "" ELSE s \o Times(s, n - 1)

MaxFrequency == 50

Corpus ==
    << [source_file |-> "api.txt",
        text |-> Chars("Application Programming Interface (API) is a contract.")],
       [source_file |-> "means.txt",
        text |-> Chars("The API works. API means Access Point Internally.")],
       [source_file |-> "xyz.txt",
        text |-> Chars("Glossary\nTHE: Total Heat Energy (THE) - THE XYZ plan. K9 unit.")],
       [source_file |-> "drop.txt",
        text |-> Chars("They asked INTERPOL: no reply. INTERPOL- none.")],
       [source_file |-> "good.txt",
        text |-> Chars("INTERPOL: International Police. Ask INTERPOL.")],
       [source_file |-> "many.txt",
        text |-> Chars("Glossary\nCanine Unit (K9)\n"
                         \o Times("K9 K9 K9\n", (MaxFrequency + 1) \div 3))],
       [source_file |-> "fbi.txt",
        text |-> Chars("The Federal Bureau of Investigation arrested him.")],
       [source_file |-> "empty.txt", text |-> Chars("")],
       \* extract_from_text(text), source_file left at its default
       [source_file |-> "", text |-> Chars("Use the API or UTF-8 in the U.S. now. UTF stands for Unicode Text Format.")],
       [source_file |-> "unit.txt",
        text |-> Chars("K9: Ok. K9 means Canine Unit. " \o Times("K9 ", 6))],
       [source_file |-> "forum.txt",
        text |-> Chars("These acronyms matter. FORUM met. FORUM won. The E.U. and EU agree.")] >>

FileIds == DOMAIN Corpus

(**************************** environment **********************************)
(* The optional capabilities the module loads at import (spaCy, BERT), the *)
(* acronym service behind _validate_with_api, and the constructor's        *)
(* arguments.  entities: the (word, file) pairs whose context spaCy tags   *)
(* as PERSON, NORP, FAC, LOC, EVENT, WORK_OF_ART, LAW or LANGUAGE;         *)
(* similarity: the cosine similarity, in hundredths, of the embeddings of  *)
(* (abbrev, definition), 0 where not listed; service: the definition the   *)
(* acronym service returns for a term, None where not listed.              *)
(***************************************************************************)

Default ==
    [min_length |-> 2, max_length |-> 10, use_api |-> FALSE, service |-> {},
     HAS_SPACY |-> FALSE, entities |-> {}, HAS_BERT |-> FALSE, similarity |-> {}]

Environments ==
    { Default,
      [Default EXCEPT !.use_api = TRUE,
                      !.service = {<<"INTERPOL", "International Police">>}],
      [Default EXCEPT !.HAS_SPACY = TRUE, !.entities = {<<"XYZ", 3>>},
                      !.HAS_BERT = TRUE,
                      !.similarity =
                          {<<"API", "Application Programming Interface", 80>>,
                           <<"API", "Access Point Internally", 60>>}],
      [Default EXCEPT !.min_length = 3, !.max_length = 4],
      [Default EXCEPT !.min_length = 5, !.max_length = 0] }

\* the (min_length, max_length) pairs, and the definitions the service knows
LengthBounds == { <<e.min_length, e.max_length>> : e \in Environments }
ServiceDefinitions == UNION { { d[2] : d \in e.service } : e \in Environments }

(*************************** per-file analysis *****************************)
(* What the regular expressions find in each file of the corpus, computed  *)
(* once: these depend on the text (and the length bounds) alone.           *)
(***************************************************************************)

MatchesIn ==
    [f \in FileIds |->
       [b \in LengthBounds |-> FindMatches(Corpus[f].text, b[1], b[2])]]

TokensIn ==
    [f \in FileIds |->
       UNION { { MatchesIn[f][b][k].abbrev : k \in DOMAIN MatchesIn[f][b] } :
               b \in LengthBounds }]

Tokens == UNION { TokensIn[f] : f \in FileIds }

EvidenceIn ==
    [f \in FileIds |->
       [w \in TokensIn[f] |-> HasEvidence(Chars(w), Corpus[f].text)]]

EntityContextIn ==
    [f \in FileIds |->
       [w \in TokensIn[f] |-> EntityContext(Chars(w), Corpus[f].text)]]

\* the tokens handed to the locator that the candidate finder did not find
Injected == {"FBI", "CU"}

DefinitionIn ==
    [f \in FileIds |->
       [w \in TokensIn[f] \cup Injected |->
          _find_definition(Corpus[f].text, Chars(w))]]

DefinitionsIn ==
    [f \in FileIds |->
       ({ DefinitionIn[f][w] : w \in TokensIn[f] } \cup ServiceDefinitions)
           \ {None}]

ConfirmedIn ==
    [f \in FileIds |->
       [d \in DefinitionsIn[f] |->
          [stands_for |-> Confirms("stands for", d, Corpus[f].text),
           means |-> Confirms("means", d, Corpus[f].text)]]]

(******************************* state *************************************)

VARIABLES
    abbreviations,  \* self.abbreviations: token -> record
    api_cache,      \* self.api_cache: term -> definition or None
    env,            \* the constructor's arguments and the loaded capabilities
    ingested,       \* history: the files ingested since the last clear
    raised,         \* the exception the last call let out, None if it returned
    call            \* the last direct call of a helper, with its result

\* core/task_manager.py: a TaskManager, its worker thread and task threads
VARIABLES
    max_concurrent, \* self.max_concurrent
    tasks,          \* self.tasks: id -> [status, cancel_flag]
    task_queue,     \* self.task_queue: the entries <<task_id, callback>>
    creating,       \* create_task calls between line 93 and line 96
    worker,         \* _worker_loop: where it stands, and its task_id, callback
    threads,        \* the task threads: id -> where _run_task stands
    statuses,       \* history: id -> the statuses the task has had, in order
    invoked         \* history: the ids whose callback was called

\* core/duplicate_handler.py: a DuplicateHandler and the files it is given
VARIABLES
    handler,          \* duplicate_mode, image_phash_threshold, file_type,
                      \* dry_run, move_to_trash as the constructor stored them
    image_index,      \* self.image_index, in insertion order
    file_index,       \* self.file_index: sha256 -> path
    duplicates_found, \* self.duplicates_found
    disk,             \* the paths that exist
    trash,            \* the paths moved to the trash
    handled,          \* history: the calls of handle_duplicate and clear
    returned          \* what the last handle_duplicate call returned

extractor_vars == <<abbreviations, api_cache, env, ingested, raised, call>>
task_vars ==
    <<max_concurrent, tasks, task_queue, creating, worker, threads, statuses,
      invoked>>
duplicate_vars ==
    <<handler, image_index, file_index, duplicates_found, disk, trash, handled,
      returned>>

vars == <<extractor_vars, task_vars, duplicate_vars>>

\* the part of an Extractor that extract_from_text changes
Fresh == [abbreviations |-> <<>>, api_cache |-> <<>>]

(****************************** the guards *********************************)

\* lines 142-161: spaCy tags the word, in its context, with an excluded label
_is_named_entity(word, f) ==
    /\ env.HAS_SPACY
    /\ EntityContextIn[f][word]
    /\ <<word, f>> \in env.entities

\* a guard that excludes nothing
NothingExcluded(word) == FALSE

IsExcluded(word) == word \in get_excluded_words

\* lines 279-312
_is_likely_abbreviation(word, f) ==
    IF IsExcluded(word) THEN FALSE
    ELSE IF _is_named_entity(word, f) THEN FALSE
    ELSE EvidenceIn[f][word]

\* a ceiling that is never reached
NeverTooCommon(freq) == FALSE

\* lines 349 and 351
TooCommon(freq) == freq > MaxFrequency
TooRare(freq, abbrev) == freq = 1 /\ Len(abbrev) > 5

(****************************** the score **********************************)

\* lines 228-244, in hundredths: 0 without BERT
_calculate_semantic_similarity(abbrev, definition) ==
    IF ~env.HAS_BERT THEN 0
    ELSE IF \E s \in env.similarity : s[1] = abbrev /\ s[2] = definition
    THEN (CHOOSE s \in env.similarity : s[1] = abbrev /\ s[2] = definition)[3]
    ELSE 0

AddIf(cond, score, hundredths) ==
    IF cond THEN FloatAdd(score, hundredths) ELSE score

\* score += c, in order, for each step <<condition, c>> whose condition holds
RECURSIVE AddAll(_, _)
AddAll(score, steps) ==
    IF Len(steps) = 0 THEN score
    ELSE AddAll(AddIf(steps[1][1], score, steps[1][2]), Tail(steps))

\* lines 188-226; the text is that of file f
_calculate_confidence_score(abbrev, definition, f, position) ==
    LET found == definition # None
        Steps(confirmed, similarity) ==
            << <<found, 30>>,
               <<found /\ confirmed.stands_for, 15>>,
               <<found /\ confirmed.means, 15>>,
               <<found /\ env.HAS_BERT /\ similarity > 70, 20>>,
               <<found /\ env.HAS_BERT /\ similarity <= 70 /\ similarity > 50, 10>>,
               <<5 * position < Len(Corpus[f].text), 10>>,
               <<HasDigit(Chars(abbrev)), 10>>,
               <<2 <= Len(abbrev) /\ Len(abbrev) <= 4, 5>>,
               <<Len(abbrev) > 7, -20>> >>
    IN Clamp(AddAll(5000, Steps(ConfirmedIn[f][definition],
                                _calculate_semantic_similarity(abbrev, definition))))

AcceptanceThreshold == 4000

(************************* the acronym service *****************************)

ServiceAnswer(abbrev) ==
    IF \E d \in env.service : d[1] = abbrev
    THEN (CHOOSE d \in env.service : d[1] = abbrev)[2]
    ELSE None

\* lines 163-186, called when use_api holds: the answer and the cache after
_validate_with_api(cache, abbrev) ==
    IF abbrev \in DOMAIN cache
    THEN [definition |-> cache[abbrev], api_cache |-> cache]
    ELSE [definition |-> ServiceAnswer(abbrev),
          api_cache |-> cache @@ (abbrev :> ServiceAnswer(abbrev))]

(******************************* merging ***********************************)

\* lines 373-379
NewRecord(definition, source_file, freq, confidence, position) ==
    [definition |-> definition,
     files |-> IF source_file # "" THEN <<source_file>> ELSE <<>>,
     count |-> freq,
     confidence |-> confidence,
     first_position |-> position]

\* variants of lines 381-391 that the properties below must tell apart from
\* the code: the count, the definition or the confidence of the last sighting
LastCount(count, freq) == freq
LatestDefinition(old, definition) == IF definition # None THEN definition ELSE old
FirstConfidence(old, confidence) == old
LatestConfidence(old, confidence) == confidence

\* line 381
AddCount(count, freq) == count + freq

\* a variant of lines 382-383 without the membership test
AppendFile(files, source_file) == Append(files, source_file)

\* lines 382-383
AddFile(files, source_file) ==
    IF source_file # "" /\ source_file \notin Range(files)
    THEN Append(files, source_file) ELSE files

\* lines 386-387
UpdateDefinition(old, definition) ==
    IF definition # None /\ old = None THEN definition ELSE old

\* lines 390-391
UpdateConfidence(old, confidence) ==
    IF confidence > old THEN confidence ELSE old

\* lines 381-391
UpdatedRecord(info, definition, source_file, freq, confidence) ==
    [info EXCEPT !.count = AddCount(@, freq),
                 !.files = AddFile(@, source_file),
                 !.definition = UpdateDefinition(@, definition),
                 !.confidence = UpdateConfidence(@, confidence)]

\* a variant of lines 372-391 that keeps the latest token alone
OnlyLatest(records, abbrev, definition, source_file, freq, confidence, position) ==
    abbrev :> NewRecord(definition, source_file, freq, confidence, position)

\* lines 372-391
Store(records, abbrev, definition, source_file, freq, confidence, position) ==
    IF abbrev \notin DOMAIN records
    THEN records @@ (abbrev :> NewRecord(definition, source_file, freq,
                                         confidence, position))
    ELSE [records EXCEPT ![abbrev] =
              UpdatedRecord(@, definition, source_file, freq, confidence)]

\* a threshold of 0.6
AcceptHigh(confidence) == confidence >= 6000

\* a threshold that every score passes
AcceptAll(confidence) == TRUE

IsAccepted(confidence) == confidence >= AcceptanceThreshold

\* a variant of lines 370-391 with a ceiling on the accumulated count
CorpusWide(records, abbrev, definition, source_file, freq, confidence, position) ==
    IF abbrev \in DOMAIN records /\ records[abbrev].count + freq > MaxFrequency
    THEN records
    ELSE IF IsAccepted(confidence)
    THEN Store(records, abbrev, definition, source_file, freq, confidence,
               position)
    ELSE records

\* lines 370-391
Record(records, abbrev, definition, source_file, freq, confidence, position) ==
    IF IsAccepted(confidence)
    THEN Store(records, abbrev, definition, source_file, freq, confidence,
               position)
    ELSE records

\* lines 357-391: a candidate that passed the guards is defined, scored and
\* recorded; the acronym service is asked when the text gives no definition
Candidate(s, f, abbrev, position, freq) ==
    LET Scored(definition) ==
            Record(s.abbreviations, abbrev, definition, Corpus[f].source_file,
                   freq,
                   _calculate_confidence_score(abbrev, definition, f, position),
                   position)
        Asked(api) ==
            [api_cache |-> api.api_cache, abbreviations |-> Scored(api.definition)]
        Located(definition) ==
            IF definition = None /\ env.use_api
            THEN Asked(_validate_with_api(s.api_cache, abbrev))
            ELSE [api_cache |-> s.api_cache, abbreviations |-> Scored(definition)]
    IN Located(DefinitionIn[f][abbrev])

\* a length filter that lets every token through
AnyLength(abbrev) == TRUE

\* line 343-345
InLength(abbrev) ==
    LET clean_abbrev == Remove(Remove(Chars(abbrev), "-"), ".")
    IN env.min_length <= Len(clean_abbrev) /\ Len(clean_abbrev) <= env.max_length

\* lines 341-391: one turn of the loop, for match k of file f
Sighting(s, f, k) ==
    LET Guarded(abbrev, position, freq) ==
            IF ~InLength(abbrev) THEN s
            ELSE IF TooCommon(freq) THEN s
            ELSE IF TooRare(freq, abbrev) THEN s
            ELSE IF ~_is_likely_abbreviation(abbrev, f) THEN s
            ELSE Candidate(s, f, abbrev, position, freq)
        Turn(matches) ==
            Guarded(matches[k].abbrev, matches[k].position,
                    CountOf(matches, matches[k].abbrev))
    IN Turn(MatchesIn[f][<<env.min_length, env.max_length>>])

\* the turns lo..hi of the loop, in order (a turn that skips leaves s as it is)
RECURSIVE Sightings(_, _, _, _)
Sightings(s, f, lo, hi) ==
    LET Then(next) ==
            IF next = s THEN Sightings(s, f, lo + 1, hi)
            ELSE Sightings(next, f, lo + 1, hi)
    IN IF lo > hi THEN s ELSE Then(Sighting(s, f, lo))

\* a call that builds the records of its text from nothing
Restart(s, f) ==
    Sightings(Fresh, f, 1, Len(MatchesIn[f][<<env.min_length, env.max_length>>]))

\* lines 314-393
extract_from_text(s, f) ==
    Sightings(s, f, 1, Len(MatchesIn[f][<<env.min_length, env.max_length>>]))

\* a rounding that cuts the digits off
Truncate(num, den) == num \div den

\* lines 503-515; coverage_percent in tenths of a percent
RoundHalfEven(num, den) ==
    LET q == num \div den
        r == num % den
    IN IF 2 * r > den \/ (2 * r = den /\ q % 2 = 1) THEN q + 1 ELSE q

get_statistics(records) ==
    LET total == Cardinality(DOMAIN records)
        with_definitions ==
            Cardinality({ a \in DOMAIN records : records[a].definition # None })
    IN [total_abbreviations |-> total,
        with_definitions |-> with_definitions,
        without_definitions |-> total - with_definitions,
        coverage_percent |->
            IF total > 0 THEN RoundHalfEven(with_definitions * 1000, total)
            ELSE 0]

(****************************** the actions ********************************)

MaxIngest == 3

\* no helper has been called directly
Idle == [op |-> "idle"]

\* Extractor(min_length, max_length, use_api) in environment e; lines
\* 135-140 store the arguments as they come
NewExtractor(e) ==
    /\ env = e
    /\ abbreviations = Fresh.abbreviations
    /\ api_cache = Fresh.api_cache
    /\ ingested = <<>>
    /\ raised = None
    /\ call = Idle

\* class TaskStatus (task_manager.py lines 10-15)
PENDING == "pending"
RUNNING == "running"
COMPLETED == "completed"
CANCELLED == "cancelled"
ERROR == "error"

\* _worker_loop at the top of its loop
AtLoop == [pc |-> "loop", task_id |-> 0, callback |-> None]

\* TaskManager(max_concurrent) and start(): task_manager.py lines 69-81
NewTaskManager(n) ==
    /\ max_concurrent = n
    /\ tasks = <<>>
    /\ task_queue = <<>>
    /\ creating = {}
    /\ worker = AtLoop
    /\ threads = <<>>
    /\ statuses = <<>>
    /\ invoked = {}

\* the files a duplicate scan meets: suffix, bytes, and what PIL reads from
\* them: the perceptual hash as a string of bits (None when Image.open
\* fails) and the resolution w * h
Files ==
    "a.txt" :> [suffix |-> ".txt", content |-> "quarterly report",
                phash |-> None, resolution |-> 0]
    @@ "b.TXT" :> [suffix |-> ".TXT", content |-> "quarterly report",
                   phash |-> None, resolution |-> 0]
    @@ "c.txt" :> [suffix |-> ".txt", content |-> "meeting notes",
                   phash |-> None, resolution |-> 0]
    @@ "p.jpg" :> [suffix |-> ".jpg", content |-> "image one",
                   phash |-> "10", resolution |-> 100]
    @@ "q.JPG" :> [suffix |-> ".JPG", content |-> "image two",
                   phash |-> "11", resolution |-> 400]
    @@ "r.jpg" :> [suffix |-> ".jpg", content |-> "image one",
                   phash |-> "10", resolution |-> 100]
    @@ "s.png" :> [suffix |-> ".png", content |-> "not an image",
                   phash |-> None, resolution |-> 0]

\* str.lower() of a mode
LowerCase(mode) == Str([i \in 1..Len(mode) |-> ToLower(Chars(mode)[i])])

\* DuplicateHandler(duplicate_mode, image_phash_threshold, file_type,
\* dry_run, move_to_trash): duplicate_handler.py lines 19-39
NewDuplicateHandler(duplicate_mode, image_phash_threshold, file_type, dry_run, move_to_trash) ==
    /\ handler = [duplicate_mode |-> LowerCase(duplicate_mode),
                  image_phash_threshold |-> image_phash_threshold,
                  file_type |-> file_type,
                  dry_run |-> dry_run,
                  move_to_trash |-> move_to_trash]
    /\ image_index = <<>>
    /\ file_index = <<>>
    /\ duplicates_found = <<>>
    /\ disk = DOMAIN Files
    /\ trash = {}
    /\ handled = <<>>
    /\ returned = [action |-> None, ref |-> None, info |-> None]

\* an Extractor in one of the environments, beside a TaskManager and a
\* DuplicateHandler built with their default arguments
Init ==
    /\ \E e \in Environments : NewExtractor(e)
    /\ NewTaskManager(3)
    /\ NewDuplicateHandler("delete", 5, "Images", FALSE, FALSE)

\* extractor.extract_from_text(content, str(file_path))
Ingest(f) ==
    LET Becomes(after) ==
            /\ abbreviations' = after.abbreviations
            /\ api_cache' = after.api_cache
    IN /\ Len(ingested) < MaxIngest
       /\ Becomes(extract_from_text(
                      [abbreviations |-> abbreviations, api_cache |-> api_cache], f))
       /\ ingested' = Append(ingested, f)
       /\ raised' = None
       /\ UNCHANGED <<env, call, task_vars, duplicate_vars>>

\* extractor.extract_from_text(content, path) with content of type bytes:
\* line 320, ABBREV_PATTERN.finditer(text), raises TypeError and nothing in
\* extract_from_text catches it
IngestBytes ==
    /\ raised' = "TypeError"
    /\ UNCHANGED <<abbreviations, api_cache, env, ingested, call, task_vars,
                 duplicate_vars>>

\* a clear that leaves the records in place
Kept(records) == records

\* lines 517-519
Cleared(records) == <<>>

Clear ==
    /\ abbreviations' = Cleared(abbreviations)
    /\ ingested' = <<>>
    /\ raised' = None
    /\ UNCHANGED <<api_cache, env, call, task_vars, duplicate_vars>>

Next ==
    \/ \E f \in FileIds : Ingest(f)
    \/ IngestBytes
    \/ Clear

Spec == Init /\ [][Next]_vars

(************************ the helpers, called directly **********************)

\* the offsets a sighting is scored at: the start, the fifth, the end
Positions(f) == {0, Len(Corpus[f].text) \div 5, Len(Corpus[f].text)}

\* extractor._find_definition(text, abbrev) on the text of file f
Locate(f, abbrev) ==
    /\ call = Idle
    /\ call' = [op |-> "_find_definition", f |-> f, abbrev |-> abbrev,
                result |-> DefinitionIn[f][abbrev]]
    /\ UNCHANGED <<abbreviations, api_cache, env, ingested, raised, task_vars,
                 duplicate_vars>>

\* extractor._calculate_confidence_score(abbrev, definition, text, position)
Score(f, abbrev, definition, position) ==
    /\ call = Idle
    /\ call' = [op |-> "_calculate_confidence_score", f |-> f,
                abbrev |-> abbrev, definition |-> definition,
                position |-> position,
                result |-> _calculate_confidence_score(abbrev, definition, f,
                                                       position)]
    /\ UNCHANGED <<abbreviations, api_cache, env, ingested, raised, task_vars,
                 duplicate_vars>>

UnitNext ==
    \/ \E f \in FileIds : \E abbrev \in TokensIn[f] \cup Injected :
           Locate(f, abbrev)
    \/ \E f \in FileIds : \E abbrev \in Tokens :
           \E definition \in DefinitionsIn[f] \cup {None} :
              \E position \in Positions(f) :
                 Score(f, abbrev, definition, position)

UnitSpec == Init /\ [][UnitNext]_vars

(***************************** the history *********************************)
(* What the calls since the last clear should have left behind, read off   *)
(* the texts ingested: sighting <<k, j>> is match j of the k-th call.      *)
(***************************************************************************)

Matches(f) == MatchesIn[f][<<env.min_length, env.max_length>>]

History ==
    UNION { { <<k, j>> : j \in DOMAIN Matches(ingested[k]) } : k \in DOMAIN ingested }

FileOf(s) == ingested[s[1]]
TokenOf(s) == Matches(FileOf(s))[s[2]].abbrev
PositionOf(s) == Matches(FileOf(s))[s[2]].position
FrequencyOf(s) == CountOf(Matches(FileOf(s)), TokenOf(s))

\* the definition a sighting of token w in file f carries
DefinitionOf(f, w) ==
    IF DefinitionIn[f][w] = None /\ env.use_api
    THEN ServiceAnswer(w) ELSE DefinitionIn[f][w]

ScoreOf(s) ==
    _calculate_confidence_score(TokenOf(s), DefinitionOf(FileOf(s), TokenOf(s)),
                                FileOf(s), PositionOf(s))

\* the sighting reaches the scorer
Scored(s) ==
    LET clean == Len(Remove(Remove(Chars(TokenOf(s)), "-"), "."))
    IN /\ env.min_length <= clean /\ clean <= env.max_length
       /\ FrequencyOf(s) <= MaxFrequency
       /\ ~(FrequencyOf(s) = 1 /\ Len(TokenOf(s)) > 5)
       /\ TokenOf(s) \notin get_excluded_words
       /\ ~_is_named_entity(TokenOf(s), FileOf(s))
       /\ EvidenceIn[FileOf(s)][TokenOf(s)]

\* the sighting is accepted into the corpus
Admitted(s) == Scored(s) /\ ScoreOf(s) >= AcceptanceThreshold

\* the accepted sightings of token w, and the order they came in
Seen(w) == { s \in History : TokenOf(s) = w /\ Admitted(s) }
Earlier(s, t) == s[1] < t[1] \/ (s[1] = t[1] /\ s[2] < t[2])

(******************************* C1 ****************************************)

\* C1: the occurrence_count of every recorded token is the number of regex
\* matches of the token in the calls whose file had the token accepted (n
\* matches in an accepted file add exactly n)
C1_CountIsMatches ==
    \A w \in DOMAIN abbreviations :
       abbreviations[w].count =
           Cardinality({ s \in History :
                           /\ TokenOf(s) = w
                           /\ \E t \in Seen(w) : t[1] = s[1] })

(******************************* C2 ****************************************)

\* the part of an Extractor after extract_from_text on each file in turn,
\* from a newly constructed one
RECURSIVE Replay(_)
Replay(files) ==
    IF Len(files) = 0 THEN Fresh
    ELSE extract_from_text(Replay(SubSeq(files, 1, Len(files) - 1)),
                           files[Len(files)])

Ascending(files) == SortSeq(files, LAMBDA a, b : a < b)

\* the tokens with their occurrence_count and their set of source_files
Summary(records) ==
    [w \in DOMAIN records |->
       [count |-> records[w].count, files |-> Range(records[w].files)]]

\* C2: whatever the order the files were ingested in, the tokens, their
\* counts and their sets of source files are those of the same files
\* ingested in ascending order
C2_OrderIndependent ==
    Summary(abbreviations) = Summary(Replay(Ascending(ingested)).abbreviations)

\* two files ingested in descending order, where the order shows in the
\* definition
C2_Reordered ==
    /\ ingested = <<2, 1>>
    /\ "API" \in DOMAIN abbreviations
    /\ abbreviations["API"].definition
           # Replay(<<1, 2>>).abbreviations["API"].definition

(******************************* C3 ****************************************)

\* the accepted sightings of w that carried a definition
Defining(w) == { s \in Seen(w) : DefinitionOf(FileOf(s), w) # None }

\* C3: the stored definition is the one carried by the earliest accepted
\* sighting that had one, and None if no accepted sighting had one
C3_FirstDefinitionWins ==
    \A w \in DOMAIN abbreviations :
       abbreviations[w].definition =
           IF Defining(w) = {} THEN None
           ELSE DefinitionOf(
                    FileOf(CHOOSE s \in Defining(w) :
                              \A t \in Defining(w) : t = s \/ Earlier(s, t)), w)

\* a later accepted sighting carried another definition than the first
C3_LaterDefinition ==
    \E w \in DOMAIN abbreviations : \E s, t \in Defining(w) :
       /\ Earlier(s, t)
       /\ DefinitionOf(FileOf(t), w) # DefinitionOf(FileOf(s), w)

(******************************* C4 ****************************************)

\* C4: the stored confidence is the highest score among the accepted
\* sightings of the token since the last clear
C4_ConfidenceIsMaximum ==
    \A w \in DOMAIN abbreviations :
       /\ \E s \in Seen(w) : ScoreOf(s) = abbreviations[w].confidence
       /\ \A s \in Seen(w) : ScoreOf(s) <= abbreviations[w].confidence

\* a later sighting scored higher than the first, and its definition was
\* not adopted
C4_RaisedLater ==
    \E w \in DOMAIN abbreviations : \E s, t \in Seen(w) :
       /\ Earlier(s, t)
       /\ ScoreOf(t) > ScoreOf(s)
       /\ ScoreOf(t) = abbreviations[w].confidence
       /\ DefinitionOf(FileOf(t), w) # abbreviations[w].definition

(******************************* C5 ****************************************)

\* the accepted sightings of w that carried the definition now stored
Carrying(w) ==
    { s \in Seen(w) : DefinitionOf(FileOf(s), w) = abbreviations[w].definition }

C6_Monotone ==
    [][Len(ingested') = Len(ingested) + 1 =>
         /\ get_statistics(abbreviations').total_abbreviations
                >= get_statistics(abbreviations).total_abbreviations
         /\ DOMAIN abbreviations \subseteq DOMAIN abbreviations'
         /\ \A w \in DOMAIN abbreviations :
               /\ abbreviations[w].count >= 1
               /\ abbreviations'[w].count >= abbreviations[w].count]_vars

\* a token accepted in two calls: the second found its record and added to it
C6_Grown ==
    \E w \in DOMAIN abbreviations : \E s, t \in Seen(w) :
       /\ s[1] < t[1]
       /\ abbreviations[w].count > FrequencyOf(s)

(******************************* C7 ****************************************)

ZeroStatistics ==
    [total_abbreviations |-> 0, with_definitions |-> 0,
     without_definitions |-> 0, coverage_percent |-> 0]

C8_Threshold ==
    /\ DOMAIN abbreviations = { TokenOf(s) : s \in { t \in History : Admitted(t) } }
    /\ \A w \in DOMAIN abbreviations :
          /\ abbreviations[w].confidence >= AcceptanceThreshold
          /\ abbreviations[w].count =
                 Cardinality(UNION { { <<s, i>> : i \in 1..FrequencyOf(s) } :
                                     s \in Seen(w) })
          /\ Range(abbreviations[w].files) =
                 { Corpus[FileOf(s)].source_file : s \in Seen(w) } \ {""}
          /\ abbreviations[w].definition
                 \in { DefinitionOf(FileOf(s), w) : s \in Seen(w) }

\* a token whose sightings were dropped in one call is recorded by a later one
C8_DroppedThenCreated ==
    \E s \in History :
       /\ Scored(s)
       /\ ScoreOf(s) < AcceptanceThreshold
       /\ TokenOf(s) \in DOMAIN abbreviations
       /\ \A t \in Seen(TokenOf(s)) : s[1] < t[1]

(******************************* C9 ****************************************)

\* C9: a call in whose text a token matches more than 50 times neither
\* creates a record for the token nor changes the one it has
C9_FrequencyCeiling ==
    [][\A f \in FileIds :
         ingested' = Append(ingested, f) =>
            \A w \in TokensIn[f] :
               CountOf(Matches(f), w) > MaxFrequency =>
                  /\ w \in DOMAIN abbreviations' <=> w \in DOMAIN abbreviations
                  /\ w \in DOMAIN abbreviations =>
                        abbreviations'[w] = abbreviations[w]]_vars

\* a recorded token met more than 50 times in a later call, with a digit, a
\* definition in parentheses and a glossary heading
C9_TooCommonLater ==
    \E s \in History :
       /\ FrequencyOf(s) > MaxFrequency
       /\ HasDigit(Chars(TokenOf(s)))
       /\ DefinitionIn[FileOf(s)][TokenOf(s)] # None
       /\ TokenOf(s) \in DOMAIN abbreviations
       /\ \E t \in Seen(TokenOf(s)) : t[1] < s[1]

(******************************* C10 ***************************************)

\* C10: no word of the exclusion set is a key of the records
C10_Excluded == DOMAIN abbreviations \cap get_excluded_words = {}

\* an excluded word was met with a colon, in parentheses and under a
\* glossary heading, in a call that recorded other tokens
C10_ExcludedSeen ==
    \E s \in History :
       /\ TokenOf(s) \in get_excluded_words
       /\ EvidenceIn[FileOf(s)][TokenOf(s)]
       /\ DefinitionIn[FileOf(s)][TokenOf(s)] # None
       /\ \E t \in History : t[1] = s[1] /\ Admitted(t)

(******************************* C11 ***************************************)

\* C11: no Extractor exists whose length bounds are non-positive or crossed
C11_ValidConfiguration ==
    /\ env.min_length > 0
    /\ env.max_length > 0
    /\ env.min_length <= env.max_length

(******************************* C12 ***************************************)

\* C12: no ingest call lets an exception out
C12_NoExceptionEscapes == raised = None

(******************************* C13 ***************************************)

\* C13: a call on a text without a candidate match (the empty text is one)
\* returns without an exception and leaves every record as it was
C13_NoCandidateNoChange ==
    [][\A f \in FileIds :
         (ingested' = Append(ingested, f) /\ Matches(f) = <<>>) =>
            /\ abbreviations' = abbreviations
            /\ raised' = None]_vars

\* the empty text and a text without a candidate, ingested after records
\* were made
C13_AfterRecords ==
    /\ Len(ingested) = 3
    /\ abbreviations # <<>>
    /\ Len(Corpus[ingested[2]].text) > 0
    /\ Matches(ingested[2]) = <<>>
    /\ Len(Corpus[ingested[3]].text) = 0

(******************************* C14 ***************************************)

\* C14: the statistics count the records, those with a definition and those
\* without, and coverage_percent (in tenths) is the tenth nearest to
\* with_definitions / total * 100, 0 when there is no record
C14_Statistics ==
    LET total == Cardinality(DOMAIN abbreviations)
        defined == Cardinality({ w \in DOMAIN abbreviations :
                                   abbreviations[w].definition # None })
        Off(tenths) == 2 * (tenths * total - 1000 * defined)
        Given(st) ==
            /\ st.total_abbreviations = total
            /\ st.with_definitions = defined
            /\ st.without_definitions = total - defined
            /\ IF total = 0 THEN st.coverage_percent = 0
               ELSE -total <= Off(st.coverage_percent)
                    /\ Off(st.coverage_percent) <= total
    IN Given(get_statistics(abbreviations))

\* two records of three are defined: 66.7 percent
C14_TwoThirds ==
    /\ Cardinality(DOMAIN abbreviations) = 3
    /\ get_statistics(abbreviations).with_definitions = 2
    /\ get_statistics(abbreviations).coverage_percent = 667

(******************************* C15 ***************************************)

\* C15 as stated: no identifier is listed twice, and the identifier of every
\* file with an accepted sighting of a token is in the token's source_files
C15_ListsEveryFile ==
    \A w \in DOMAIN abbreviations :
       /\ Cardinality(Range(abbreviations[w].files)) = Len(abbreviations[w].files)
       /\ \A s \in Seen(w) :
             Corpus[FileOf(s)].source_file \in Range(abbreviations[w].files)

\* C15: no identifier is listed twice; every non-empty identifier of a file
\* with an accepted sighting of a token is in the token's source_files, the
\* empty identifier never is; an ingest call only appends to source_files,
\* and appends nothing when its identifier is listed already
C15_SourceFiles ==
    /\ [](\A w \in DOMAIN abbreviations :
            /\ Cardinality(Range(abbreviations[w].files))
                   = Len(abbreviations[w].files)
            /\ "" \notin Range(abbreviations[w].files)
            /\ \A s \in Seen(w) :
                  Corpus[FileOf(s)].source_file # "" =>
                     Corpus[FileOf(s)].source_file
                        \in Range(abbreviations[w].files))
    /\ [][\A f \in FileIds : \A w \in DOMAIN abbreviations :
             ingested' = Append(ingested, f) =>
                /\ SubSeq(abbreviations'[w].files, 1, Len(abbreviations[w].files))
                       = abbreviations[w].files
                /\ Corpus[f].source_file \in Range(abbreviations[w].files) =>
                       abbreviations'[w].files = abbreviations[w].files]_vars

\* a token accepted twice from one file and once from a call without an
\* identifier
C15_TwiceAndUnnamed ==
    \E w \in DOMAIN abbreviations : \E s, t, u \in Seen(w) :
       /\ s[1] < t[1]
       /\ FileOf(s) = FileOf(t)
       /\ Corpus[FileOf(u)].source_file = ""

(******************************* C16 ***************************************)

\* C16: every key, hyphens and periods taken out, is min_length to
\* max_length characters long
C16_KeyLength ==
    \A w \in DOMAIN abbreviations :
       LET clean == Len(Remove(Remove(Chars(w), "-"), "."))
       IN env.min_length <= clean /\ clean <= env.max_length

\* a key with a hyphen that is longer than max_length as it is stored
C16_Hyphenated ==
    \E w \in DOMAIN abbreviations :
       /\ Len(w) > env.max_length
       /\ Contains(Chars(w), Chars("-"))

(******************************* C17 ***************************************)

\* C17: on the text of fbi.txt, "The Federal Bureau of Investigation
\* arrested him.", the locator gives FBI the definition "Federal Bureau of
\* Investigation"
C17_FederalBureau ==
    (call.op = "_find_definition" /\ call.f = 7 /\ call.abbrev = "FBI") =>
        call.result = "Federal Bureau of Investigation"

(******************************* C18 ***************************************)

\* C18: api.txt alone, ingested without BERT and spaCy under length bounds
\* that admit API, records API with the definition "Application Programming
\* Interface" and a confidence of at least 0.8
C18_RoundTrip ==
    (/\ ingested = <<1>>
     /\ ~env.HAS_BERT /\ ~env.HAS_SPACY
     /\ env.min_length <= 3 /\ 3 <= env.max_length) =>
        /\ "API" \in DOMAIN abbreviations
        /\ abbreviations["API"].definition = "Application Programming Interface"
        /\ abbreviations["API"].confidence >= 8000

\* api.txt alone in the default environment: API is recorded under 1.0
C18_Ingested ==
    /\ ingested = <<1>>
    /\ env = Default
    /\ "API" \in DOMAIN abbreviations
    /\ abbreviations["API"].confidence < 10000

(******************************* C19 ***************************************)

\* a sighting of a token of 2 to 4 characters, not excluded, without a
\* digit, in a text that holds no definition of it
Bare(s) ==
    /\ 2 <= Len(TokenOf(s)) /\ Len(TokenOf(s)) <= 4
    /\ TokenOf(s) \notin get_excluded_words
    /\ ~HasDigit(Chars(TokenOf(s)))
    /\ DefinitionIn[FileOf(s)][TokenOf(s)] = None

\* C19 as stated: every such token scores at least 0.55 and is recorded
\* with no definition
C19_ShortTokenRecorded ==
    \A s \in History :
       Bare(s) =>
          /\ ScoreOf(s) >= 5500
          /\ TokenOf(s) \in DOMAIN abbreviations
          /\ abbreviations[TokenOf(s)].definition = None

\* C19: such a token, when it passes the guards before the scorer (length
\* bounds, frequency, entity guard) and the acronym service gives it no
\* definition, scores at least 0.55 and is recorded; its record has no
\* definition unless another accepted sighting of the token carried one
C19_ShortTokenScored ==
    \A s \in History :
       (Bare(s) /\ Scored(s) /\ DefinitionOf(FileOf(s), TokenOf(s)) = None) =>
          /\ ScoreOf(s) >= 5500
          /\ TokenOf(s) \in DOMAIN abbreviations
          /\ Defining(TokenOf(s)) = {} =>
                abbreviations[TokenOf(s)].definition = None

\* such a token scored exactly 0.55 and recorded without a definition
C19_AtBaseline ==
    \E s \in History :
       /\ Bare(s) /\ Scored(s)
       /\ ScoreOf(s) = 5500
       /\ abbreviations[TokenOf(s)].definition = None
       /\ abbreviations[TokenOf(s)].confidence = 5500

(******************************* C20 ***************************************)

\* the score in hundredths
Hundredths(score) == (score + 50) \div 100

\* C20: without BERT the score is 0.5 plus 0.3 for a definition, 0.15 each
\* for a definition confirmed by "stands for" and by "means", 0.1 for a
\* position in the first fifth of the text, 0.1 for a digit, 0.05 for 2 to
\* 4 characters, less 0.2 for more than 7 characters, brought into [0, 1]
C20_ScoreFormula ==
    (call.op = "_calculate_confidence_score" /\ ~env.HAS_BERT) =>
        LET found == call.definition # None
            Term(cond, hundredths) == IF cond THEN hundredths ELSE 0
            sum == 50 + Term(found, 30)
                   + Term(found /\ ConfirmedIn[call.f][call.definition].stands_for, 15)
                   + Term(found /\ ConfirmedIn[call.f][call.definition].means, 15)
                   + Term(5 * call.position < Len(Corpus[call.f].text), 10)
                   + Term(HasDigit(Chars(call.abbrev)), 10)
                   + Term(2 <= Len(call.abbrev) /\ Len(call.abbrev) <= 4, 5)
                   - Term(Len(call.abbrev) > 7, 20)
        IN /\ Hundredths(call.result) = Max(0, Min(100, sum))
           /\ 0 <= call.result /\ call.result <= 10000

\* a sum above 1: a definition confirmed by "stands for", at the start of
\* the text, for a short token with a digit
C20_Clamped ==
    /\ call.op = "_calculate_confidence_score"
    /\ ~env.HAS_BERT
    /\ call.definition # None
    /\ ConfirmedIn[call.f][call.definition].stands_for
    /\ call.position = 0
    /\ HasDigit(Chars(call.abbrev))
    /\ call.result = 10000
(******************************* C21 ***************************************)

\* the turns of the loop over the text of file f that record token w when
\* nothing is recorded yet
AcceptedIn(f, w) ==
    { j \in DOMAIN Matches(f) :
        /\ Matches(f)[j].abbrev = w
        /\ w \in DOMAIN Sighting(Fresh, f, j).abbreviations }

\* the accepted sightings of token w in the latest call
Latest(w) == { s \in Seen(w) : s[1] = Len(ingested) }

\* C21: the frequency ceiling looks at the matches of the current call
\* alone: a token with more than 50 matches in the text is left as it was,
\* and a token with at most 50 whose sighting is accepted is merged (each
\* accepted sighting adds the frequency, the file is listed), whatever the
\* count it has accumulated
C21_PerCallCeiling ==
    [][\A f \in FileIds :
         ingested' = Append(ingested, f) =>
            \A w \in TokensIn[f] :
               IF CountOf(Matches(f), w) > MaxFrequency
               THEN /\ w \in DOMAIN abbreviations' <=> w \in DOMAIN abbreviations
                    /\ w \in DOMAIN abbreviations =>
                          abbreviations'[w] = abbreviations[w]
               ELSE AcceptedIn(f, w) # {} =>
                    /\ w \in DOMAIN abbreviations'
                    /\ abbreviations'[w].count =
                          (IF w \in DOMAIN abbreviations
                           THEN abbreviations[w].count ELSE 0)
                          + Cardinality(AcceptedIn(f, w)) * CountOf(Matches(f), w)
                    /\ Corpus[f].source_file # "" =>
                          Corpus[f].source_file \in Range(abbreviations'[w].files)]_vars

\* a token whose count had passed 50 before the latest call, which met it
\* at most 50 times, raised the count and listed a further file
C21_MergedAbove ==
    \E w \in DOMAIN abbreviations :
       LET before == Replay(SubSeq(ingested, 1, Len(ingested) - 1)).abbreviations
       IN /\ Len(ingested) >= 2
          /\ Latest(w) # {}
          /\ w \in DOMAIN before
          /\ before[w].count > MaxFrequency
          /\ abbreviations[w].count > before[w].count
          /\ Len(abbreviations[w].files) > Len(before[w].files)
(******************************* C22 ***************************************)

\* C22: the locator returns the candidate of the first of the strategies
\* 1 definition (TOKEN), 2 TOKEN (definition), 3 TOKEN colon/dash clause,
\* 4 TOKEN stands for/means clause, 5 first letters, that has one; a
\* candidate its strategy rejects as shorter than 4 characters counts as
\* none, and the result is None when no strategy has a candidate
C22_Priority ==
    call.op = "_find_definition" =>
        LET Expected(text) ==
                FirstFound(<<Strategy1(text, Chars(call.abbrev)),
                             Strategy2(text, Chars(call.abbrev)),
                             Strategy3(text, Chars(call.abbrev)),
                             Strategy4(text, Chars(call.abbrev)),
                             _find_first_letter_match(text, Chars(call.abbrev))>>)
        IN call.result = Expected(CleanText(Corpus[call.f].text))

\* strategies 1 and 3 both have a candidate and they differ: the locator
\* returned that of strategy 1
C22_ParenthesesBeforeClause ==
    /\ call.op = "_find_definition"
    /\ LET Both(text) ==
               /\ Strategy1(text, Chars(call.abbrev)) # None
               /\ Strategy3(text, Chars(call.abbrev)) # None
               /\ Strategy3(text, Chars(call.abbrev)) # Strategy1(text, Chars(call.abbrev))
               /\ call.result = Strategy1(text, Chars(call.abbrev))
       IN Both(CleanText(Corpus[call.f].text))
(******************************* C23 ***************************************)

\* a glossary, abbreviations or acronyms heading: the word, in any case, at
\* the end of its line
Heading ==
    <<Alt(Word("glossary"), AbbreviationsOrAcronyms),
      Rep(<<In(Space)>>, 0, -1), In({"\n"})>>

\* the word occurs within GlossaryWindow characters after some heading
AfterHeading(word, text) ==
    LET Within(start) ==
            Contains(SubSeq(text, start,
                            Min(Len(text), start + GlossaryWindow - 1)), word)
        AfterSome(headings) ==
            \E k \in DOMAIN headings : Within(headings[k].end)
    IN AfterSome(FindIter(Heading, text, 1))

\* the evidence C23 lists: a digit, parentheses around the word or a colon
\* or dash next to it, a heading within 500 characters before it, or a
\* length of 2 to 4
ListedEvidence(word, text) ==
    \/ HasDigit(word)
    \/ \E k \in 1..3 : Search(LikelyPatterns(word)[k], text).ok
    \/ AfterHeading(word, text)
    \/ (2 <= Len(word) /\ Len(word) <= 4)

ListedEvidenceIn ==
    [f \in FileIds |->
       [w \in TokensIn[f] |-> ListedEvidence(Chars(w), Corpus[f].text)]]

\* C23: without the entity guard, the filter rejects the excluded words
\* and accepts any other token exactly when it has the listed evidence,
\* so that a recorded token of 5 or more characters had that evidence in
\* a text it was met in
C23_FilterDecision ==
    ~env.HAS_SPACY =>
        /\ \A s \in History :
              _is_likely_abbreviation(TokenOf(s), FileOf(s))
                  <=> /\ TokenOf(s) \notin get_excluded_words
                      /\ ListedEvidenceIn[FileOf(s)][TokenOf(s)]
        /\ \A w \in DOMAIN abbreviations :
              Len(w) >= 5 =>
                 \E s \in History :
                    TokenOf(s) = w /\ ListedEvidenceIn[FileOf(s)][w]
(******************************* C24 ***************************************)

\* the call that created the record of token w: the earliest one, since
\* the last clear, with an accepted sighting of w
Creating(w) == Least({ s[1] : s \in Seen(w) })

\* the offsets at which the matches of file f have token w
OffsetsIn(f, w) ==
    { Matches(f)[j].position :
        j \in { i \in DOMAIN Matches(f) : Matches(f)[i].abbrev = w } }

\* C24: first_position is the smallest offset of the token in the text of
\* the call that created the record, and no call changes it afterwards
C24_FirstPosition ==
    /\ [](\A w \in DOMAIN abbreviations :
            abbreviations[w].first_position =
                Least(OffsetsIn(ingested[Creating(w)], w)))
    /\ [][\A w \in DOMAIN abbreviations \cap DOMAIN abbreviations' :
            abbreviations'[w].first_position =
                abbreviations[w].first_position]_vars
(****************************** task manager *******************************)
(* core/task_manager.py.  A step is what a thread does between two points  *)
(* where another thread can run: a block under self.lock, a queue          *)
(* operation, the call of the callback.  Task ids (the first 8 hex digits  *)
(* of a uuid4) are taken to be distinct: 1, 2, ... in order of creation.   *)
(***************************************************************************)

MaxTasks == 3

\* the max_concurrent values a TaskManager is built with
Capacities == {1, 2}

\* the scan_callback given to create_task: None, or a scan
Callbacks == {None, "scan"}

\* ScanTask(target, name): lines 33-46
ScanTask == [status |-> PENDING, cancel_flag |-> FALSE]

Terminal == {COMPLETED, CANCELLED, ERROR}

Last(seq) == seq[Len(seq)]

Without(f, k) == [x \in DOMAIN f \ {k} |-> f[x]]

\* the history of statuses, once the tasks are as in after
Logged(after) ==
    [id \in DOMAIN statuses |->
       IF id \in DOMAIN after /\ after[id].status # Last(statuses[id])
       THEN Append(statuses[id], after[id].status) ELSE statuses[id]]

\* lines 123-125
get_running_count ==
    Cardinality({ id \in DOMAIN tasks : tasks[id].status = RUNNING })

\* lines 90-93: the task is built and stored under the lock
create_task(scan_callback) ==
    LET id == Cardinality(DOMAIN statuses) + 1
    IN /\ id <= MaxTasks
       /\ tasks' = tasks @@ (id :> ScanTask)
       /\ statuses' = statuses @@ (id :> <<PENDING>>)
       /\ creating' = creating \cup {<<id, scan_callback>>}
       /\ UNCHANGED <<max_concurrent, task_queue, worker, threads, invoked,
                      extractor_vars, duplicate_vars>>

\* line 96: self.task_queue.put((task.id, scan_callback))
create_task_put(entry) ==
    /\ entry \in creating
    /\ task_queue' = Append(task_queue, entry)
    /\ creating' = creating \ {entry}
    /\ UNCHANGED <<max_concurrent, tasks, worker, threads, statuses, invoked,
                   extractor_vars, duplicate_vars>>

\* a cancel that marks a running task CANCELLED too
CancelledAnyway(task) ==
    [task EXCEPT !.cancel_flag = TRUE,
                 !.status = IF @ \in {PENDING, RUNNING} THEN CANCELLED ELSE @]

\* lines 104-106
Cancelled(task) ==
    [task EXCEPT !.cancel_flag = TRUE,
                 !.status = IF @ = PENDING THEN CANCELLED ELSE @]

\* lines 100-108, for a task_id the manager knows (it returns False and
\* changes nothing for any other)
cancel_task(task_id) ==
    LET Becomes(after) == tasks' = after /\ statuses' = Logged(after)
    IN /\ task_id \in DOMAIN tasks
       /\ Becomes([tasks EXCEPT ![task_id] = Cancelled(@)])
       /\ UNCHANGED <<max_concurrent, task_queue, creating, worker, threads,
                      invoked, extractor_vars, duplicate_vars>>

\* a test that lets every task be removed
AlwaysRemovable(status) == TRUE

\* line 130
Removable(status) == status \notin {PENDING, RUNNING}

\* lines 127-133
remove_task(task_id) ==
    /\ task_id \in DOMAIN tasks
    /\ tasks' = IF Removable(tasks[task_id].status)
                THEN Without(tasks, task_id) ELSE tasks
    /\ UNCHANGED <<max_concurrent, task_queue, creating, worker, threads,
                   statuses, invoked, extractor_vars, duplicate_vars>>

\* lines 135-140
clear_completed ==
    /\ tasks' = [id \in { t \in DOMAIN tasks : tasks[t].status \notin Terminal }
                   |-> tasks[id]]
    /\ UNCHANGED <<max_concurrent, task_queue, creating, worker, threads,
                   statuses, invoked, extractor_vars, duplicate_vars>>

\* a capacity test that never holds the worker back
NeverAtCapacity(count) == FALSE

\* line 146
AtCapacity(count) == count >= max_concurrent

\* lines 143-148: at capacity the worker sleeps and starts over
_worker_loop ==
    /\ worker.pc = "loop"
    /\ worker' = IF AtCapacity(get_running_count) THEN worker
                 ELSE [worker EXCEPT !.pc = "get"]
    /\ UNCHANGED <<max_concurrent, tasks, task_queue, creating, threads,
                   statuses, invoked, extractor_vars, duplicate_vars>>

\* lines 151-154: the next entry of the queue, or queue.Empty
_worker_loop_get ==
    /\ worker.pc = "get"
    /\ IF task_queue = <<>>
       THEN worker' = AtLoop /\ UNCHANGED task_queue
       ELSE /\ worker' = [pc |-> "lock", task_id |-> Head(task_queue)[1],
                          callback |-> Head(task_queue)[2]]
            /\ task_queue' = Tail(task_queue)
    /\ UNCHANGED <<max_concurrent, tasks, creating, threads, statuses, invoked,
                   extractor_vars, duplicate_vars>>

\* a test that starts any task the manager still knows
Listed(task_id) == task_id \in DOMAIN tasks

\* lines 157-158
Startable(task_id) ==
    task_id \in DOMAIN tasks /\ tasks[task_id].status = PENDING

\* lines 156-163: under the lock, the task is started or skipped
_worker_loop_start ==
    LET Becomes(after) == tasks' = after /\ statuses' = Logged(after)
    IN /\ worker.pc = "lock"
       /\ IF Startable(worker.task_id)
          THEN /\ Becomes([tasks EXCEPT ![worker.task_id].status = RUNNING])
               /\ worker' = [worker EXCEPT !.pc = "thread"]
          ELSE /\ worker' = AtLoop
               /\ UNCHANGED <<tasks, statuses>>
       /\ UNCHANGED <<max_concurrent, task_queue, creating, threads, invoked,
                      extractor_vars, duplicate_vars>>

\* lines 166-173: a thread for _run_task, if there is a callback
_worker_loop_thread ==
    /\ worker.pc = "thread"
    /\ threads' = IF worker.callback # None
                  THEN threads @@ (worker.task_id :> "get_task") ELSE threads
    /\ worker' = AtLoop
    /\ UNCHANGED <<max_concurrent, tasks, task_queue, creating, statuses,
                   invoked, extractor_vars, duplicate_vars>>

\* lines 180-187: the task is looked up and the callback called with it
_run_task(task_id) ==
    /\ task_id \in DOMAIN threads
    /\ threads[task_id] = "get_task"
    /\ IF task_id \in DOMAIN tasks
       THEN /\ threads' = [threads EXCEPT ![task_id] = "callback"]
            /\ invoked' = invoked \cup {task_id}
       ELSE /\ threads' = Without(threads, task_id)
            /\ UNCHANGED invoked
    /\ UNCHANGED <<max_concurrent, tasks, task_queue, creating, worker,
                   statuses, extractor_vars, duplicate_vars>>

\* callback(task) returns, whether or not it saw the cancel_flag
callback_returns(task_id) ==
    /\ task_id \in DOMAIN threads
    /\ threads[task_id] = "callback"
    /\ threads' = [threads EXCEPT ![task_id] = "returned"]
    /\ UNCHANGED <<max_concurrent, tasks, task_queue, creating, worker,
                   statuses, invoked, extractor_vars, duplicate_vars>>

\* callback(task) raises an Exception
callback_raises(task_id) ==
    /\ task_id \in DOMAIN threads
    /\ threads[task_id] = "callback"
    /\ threads' = [threads EXCEPT ![task_id] = "raised"]
    /\ UNCHANGED <<max_concurrent, tasks, task_queue, creating, worker,
                   statuses, invoked, extractor_vars, duplicate_vars>>

\* lines 190-193: COMPLETED if the task is still RUNNING
_run_task_completed(task_id) ==
    LET Becomes(after) == tasks' = after /\ statuses' = Logged(after)
    IN /\ task_id \in DOMAIN threads
       /\ threads[task_id] = "returned"
       /\ Becomes(IF task_id \in DOMAIN tasks /\ tasks[task_id].status = RUNNING
                  THEN [tasks EXCEPT ![task_id].status = COMPLETED] ELSE tasks)
       /\ threads' = Without(threads, task_id)
       /\ UNCHANGED <<max_concurrent, task_queue, creating, worker, invoked,
                      extractor_vars, duplicate_vars>>

\* lines 195-199: ERROR, whatever the status was
_run_task_error(task_id) ==
    LET Becomes(after) == tasks' = after /\ statuses' = Logged(after)
    IN /\ task_id \in DOMAIN threads
       /\ threads[task_id] = "raised"
       /\ Becomes(IF task_id \in DOMAIN tasks
                  THEN [tasks EXCEPT ![task_id].status = ERROR] ELSE tasks)
       /\ threads' = Without(threads, task_id)
       /\ UNCHANGED <<max_concurrent, task_queue, creating, worker, invoked,
                      extractor_vars, duplicate_vars>>

\* the steps of the worker thread, and of the thread of task task_id
WorkerStep ==
    _worker_loop \/ _worker_loop_get \/ _worker_loop_start \/ _worker_loop_thread

ThreadStep(task_id) ==
    \/ _run_task(task_id)
    \/ callback_returns(task_id)
    \/ callback_raises(task_id)
    \/ _run_task_completed(task_id)
    \/ _run_task_error(task_id)

TaskInit ==
    /\ NewExtractor(Default)
    /\ \E n \in Capacities : NewTaskManager(n)
    /\ NewDuplicateHandler("delete", 5, "Images", FALSE, FALSE)

TaskNext ==
    \/ \E scan_callback \in Callbacks : create_task(scan_callback)
    \/ \E entry \in creating : create_task_put(entry)
    \/ \E task_id \in 1..MaxTasks : cancel_task(task_id)
    \/ \E task_id \in 1..MaxTasks : remove_task(task_id)
    \/ clear_completed
    \/ WorkerStep
    \/ \E task_id \in 1..MaxTasks : ThreadStep(task_id)

TaskSpec == TaskInit /\ [][TaskNext]_vars

\* the same under fair scheduling: every thread that can take a step
\* eventually takes one, and every callback returns or raises
TaskFairSpec ==
    /\ TaskSpec
    /\ WF_vars(\E entry \in creating : create_task_put(entry))
    /\ WF_vars(WorkerStep)
    /\ \A task_id \in 1..MaxTasks : WF_vars(ThreadStep(task_id))
(******************************* C25 ***************************************)

\* C25: at most max_concurrent tasks have status RUNNING
C25_ConcurrencyBound == get_running_count <= max_concurrent

\* every slot is taken while a further task waits in the queue and the
\* worker is held back at the top of its loop
C25_FullWithWaiting ==
    /\ max_concurrent = 2
    /\ get_running_count = max_concurrent
    /\ worker.pc = "loop"
    /\ \E k \in DOMAIN task_queue :
          /\ task_queue[k][1] \in DOMAIN tasks
          /\ tasks[task_queue[k][1]].status = PENDING

(******************************* C26 ***************************************)

\* C26: a task marked CANCELLED was PENDING until then and has no other
\* status afterwards; it never runs, has no thread, and its callback is
\* never called
C26_CancelledNeverStarts ==
    \A id \in DOMAIN statuses :
       (\E k \in DOMAIN statuses[id] : statuses[id][k] = CANCELLED) =>
          /\ statuses[id] = <<PENDING, CANCELLED>>
          /\ id \notin invoked
          /\ id \notin DOMAIN threads

\* the worker took the entry of a cancelled task, which had a callback, off
\* the queue and went back to the top of its loop without starting it
C26_EntrySkipped ==
    \E id \in DOMAIN tasks :
       /\ tasks[id].status = CANCELLED
       /\ \A entry \in creating : entry[1] # id
       /\ \A k \in DOMAIN task_queue : task_queue[k][1] # id
       /\ worker = AtLoop
       /\ id \notin invoked

(******************************* C27 ***************************************)

Transitions ==
    {<<PENDING, RUNNING>>, <<PENDING, CANCELLED>>, <<RUNNING, COMPLETED>>,
     <<RUNNING, ERROR>>}

\* C28: a status changes only along PENDING -> RUNNING, PENDING ->
\* CANCELLED, RUNNING -> COMPLETED, RUNNING -> ERROR, so that COMPLETED,
\* CANCELLED and ERROR are final; and only a task in a final status leaves
\* the manager
C28_Transitions ==
    [][/\ \A id \in DOMAIN tasks \cap DOMAIN tasks' :
            \/ tasks'[id].status = tasks[id].status
            \/ <<tasks[id].status, tasks'[id].status>> \in Transitions
       /\ \A id \in DOMAIN tasks \ DOMAIN tasks' :
            tasks[id].status \in Terminal]_vars

\* a task has been removed while another is PENDING and a third RUNNING
C28_RemovedBesideActive ==
    /\ \E id \in DOMAIN statuses : id \notin DOMAIN tasks
    /\ \E id \in DOMAIN tasks : tasks[id].status = PENDING
    /\ \E id \in DOMAIN tasks : tasks[id].status = RUNNING

(******************************* C29 ***************************************)

\* C29: under fair scheduling every task that was created ends COMPLETED,
\* ERROR or (cancelled while PENDING) CANCELLED
C29_Terminates ==
    \A id \in 1..MaxTasks :
       (id \in DOMAIN statuses)
           ~> (id \in DOMAIN statuses /\ Last(statuses[id]) \in Terminal)

(************************ core/duplicate_handler.py ************************)

MaxHandled == 4

\* the constructor arguments tried
Modes == {"delete", "Delete", "report"}
FileTypes == {"Images", "Documents"}
Thresholds == {0, 1}

\* FILE_EXTENSIONS["Images"]
FILE_EXTENSIONS == {".jpg", ".jpeg", ".png", ".bmp", ".tiff"}

\* hashlib.sha256(content).hexdigest(), on the contents of Files
compute_sha256(content) ==
    CASE content = "quarterly report" ->
           "07da4984cc545b940a1ed292475591bc0dea3044a438bb021db0a0f575c74418"
      [] content = "meeting notes" ->
           "db78826009a9e6f5e388046abb7dc257a3afc2eb4a2f1d190618e7c8d838e217"
      [] content = "image one" ->
           "b873cce066eb02edb88d8bbb06a2b53fe97b14d93b7af43f88f5c57072a61904"
      [] content = "image two" ->
           "a761c47da1bdd87f59254c7b86c7ce0ffcc66ad0e002c2f526eae23a2740761e"
      [] content = "not an image" ->
           "5464533c9647b67eb320c40ccc5959537c09102ae75388f6a7675b433e745c9d"

\* compute_phash(path): None when the file is missing or is no image
compute_phash(path) == IF path \in disk THEN Files[path].phash ELSE None

\* image_resolution(path): 0 when the file cannot be opened
image_resolution(path) == IF path \in disk THEN Files[path].resolution ELSE 0

\* abs(phash - stored_phash): the number of bits that differ
HashDistance(phash, stored_phash) ==
    Cardinality({ i \in 1..Len(phash) :
                     Chars(phash)[i] # Chars(stored_phash)[i] })

\* path.stat().st_size if path.exists() else 0
SizeOf(path) == IF path \in disk THEN Len(Files[path].content) ELSE 0

\* the test that sends a file to the image branch (line 73)
ImageBranch(file_path) ==
    /\ handler.file_type = "Images"
    /\ LowerCase(Files[file_path].suffix) \in FILE_EXTENSIONS

NeverReporting(duplicate_mode) == FALSE

\* _delete_file's early return (lines 154-155)
Reporting(duplicate_mode) == duplicate_mode # "delete"

\* self._delete_file(path): unlink, or the move to the trash with its fall
\* back to unlink; a failure is logged and leaves the file
_delete_file(path) ==
    IF Reporting(handler.duplicate_mode) \/ path \notin disk
    THEN UNCHANGED <<disk, trash>>
    ELSE /\ disk' = disk \ {path}
         /\ trash' \in IF handler.move_to_trash
                       THEN {trash \cup {path}, trash}
                       ELSE {trash}

\* the position of the first entry of self.image_index within the threshold
\* of phash, 0 when there is none (lines 80-81)
SimilarIn(phash) ==
    LET close == { i \in 1..Len(image_index) :
                     HashDistance(phash, image_index[i].phash)
                         <= handler.image_phash_threshold }
    IN IF close = {} THEN 0 ELSE CHOOSE i \in close : \A j \in close : i <= j

\* the position of sha in self.file_index, 0 when it is not a key
IndexedAt(sha) ==
    LET at == { i \in 1..Len(file_index) : file_index[i].sha = sha }
    IN IF at = {} THEN 0 ELSE CHOOSE i \in at : TRUE

\* handler.handle_duplicate(file_path)
handle_duplicate(file_path) ==
    LET Returns(action, ref, info) ==
            /\ returned' = [action |-> action, ref |-> ref, info |-> info]
            /\ handled' =
                 Append(handled, [path |-> file_path, action |-> action])
        Perform(to_delete) ==
            IF handler.dry_run THEN UNCHANGED <<disk, trash>>
            ELSE _delete_file(to_delete)
        phash == compute_phash(file_path)
        current_res == image_resolution(file_path)
        Similar(i, existing_path, existing_res, to_delete, to_keep) ==
            LET duplicate_info ==
                    [to_delete |-> to_delete,
                     to_keep |-> to_keep,
                     reason |-> "Similar image (hash distance: "
                                \o ToString(HashDistance(phash,
                                                image_index[i].phash))
                                \o ")",
                     delete_size |-> SizeOf(to_delete),
                     keep_size |-> SizeOf(to_keep),
                     delete_res |-> IF to_delete = file_path
                                    THEN current_res ELSE existing_res,
                     keep_res |-> IF to_keep = file_path
                                  THEN current_res ELSE existing_res]
            IN /\ image_index' =
                    IF current_res > existing_res
                    THEN [image_index EXCEPT
                            ![i] = [phash |-> image_index[i].phash,
                                    path |-> file_path,
                                    resolution |-> current_res]]
                    ELSE image_index
               /\ duplicates_found' = Append(duplicates_found, duplicate_info)
               /\ Perform(to_delete)
               /\ Returns(IF current_res > existing_res
                          THEN "duplicate_kept_new" ELSE "duplicate_deleted",
                          to_keep, duplicate_info)
               /\ UNCHANGED file_index
        Image(i) ==
            IF phash = None
            THEN /\ Returns("error", None, None)
                 /\ UNCHANGED <<image_index, file_index, duplicates_found,
                                disk, trash>>
            ELSE IF i # 0
            THEN IF current_res > image_index[i].resolution
                 THEN Similar(i, image_index[i].path,
                              image_index[i].resolution,
                              image_index[i].path, file_path)
                 ELSE Similar(i, image_index[i].path,
                              image_index[i].resolution,
                              file_path, image_index[i].path)
            ELSE /\ image_index' =
                      Append(image_index, [phash |-> phash,
                                           path |-> file_path,
                                           resolution |-> current_res])
                 /\ Returns("new", None, None)
                 /\ UNCHANGED <<file_index, duplicates_found, disk, trash>>
        Other(sha, i) ==
            IF file_path \notin disk
            THEN \* open(file_path, "rb") raises
                 /\ Returns("FileNotFoundError", None, None)
                 /\ UNCHANGED <<image_index, file_index, duplicates_found,
                                disk, trash>>
            ELSE IF i # 0
            THEN LET existing_path == file_index[i].path
                     duplicate_info ==
                         [to_delete |-> file_path,
                          to_keep |-> existing_path,
                          reason |-> "Exact duplicate (same SHA256 hash)",
                          delete_size |-> SizeOf(file_path),
                          keep_size |-> SizeOf(existing_path)]
                 IN /\ duplicates_found' =
                         Append(duplicates_found, duplicate_info)
                    /\ Perform(file_path)
                    /\ Returns("duplicate_deleted", existing_path,
                               duplicate_info)
                    /\ UNCHANGED <<image_index, file_index>>
            ELSE /\ file_index' =
                      Append(file_index, [sha |-> sha, path |-> file_path])
                 /\ Returns("new", None, None)
                 /\ UNCHANGED <<image_index, duplicates_found, disk, trash>>
    IN /\ Len(handled) < MaxHandled
       /\ IF ImageBranch(file_path)
          THEN Image(IF phash = None THEN 0 ELSE SimilarIn(phash))
          ELSE Other(compute_sha256(Files[file_path].content),
                     IndexedAt(compute_sha256(Files[file_path].content)))
       /\ UNCHANGED <<handler, extractor_vars, task_vars>>

\* handler.clear()
clear ==
    /\ Len(handled) < MaxHandled
    /\ image_index' = <<>>
    /\ file_index' = <<>>
    /\ duplicates_found' = <<>>
    /\ handled' = Append(handled, [path |-> None, action |-> "clear"])
    /\ UNCHANGED <<handler, disk, trash, returned, extractor_vars, task_vars>>

DupInit ==
    /\ NewExtractor(Default)
    /\ NewTaskManager(3)
    /\ \E duplicate_mode \in Modes, image_phash_threshold \in Thresholds,
          file_type \in FileTypes, dry_run \in BOOLEAN,
          move_to_trash \in BOOLEAN :
          NewDuplicateHandler(duplicate_mode, image_phash_threshold,
                              file_type, dry_run, move_to_trash)

DupNext ==
    \/ \E file_path \in DOMAIN Files : handle_duplicate(file_path)
    \/ clear

DupSpec == DupInit /\ [][DupNext]_vars

(******************************* C30 ***************************************)

\* the configurations that only report
Quiet == handler.dry_run \/ handler.duplicate_mode # "delete"

DuplicateActions == {"duplicate_deleted", "duplicate_kept_new"}

\* the calls of handle_duplicate in history since the last clear()
SinceClear(history) ==
    LET marks == { i \in 1..Len(history) : history[i].action = "clear" }
        from == IF marks = {} THEN 1
                ELSE 1 + CHOOSE i \in marks : \A j \in marks : j <= i
    IN SubSeq(history, from, Len(history))

\* the positions in history of the calls that read the same bytes as path
\* on the non-image branch
SameBytes(history, path) ==
    { i \in 1..Len(history) :
        /\ ~ImageBranch(history[i].path)
        /\ history[i].action \in {"new", "duplicate_deleted"}
        /\ Files[history[i].path].content = Files[path].content }

\* the positions in history of the images read with the hash of path
SameHash(history, path) ==
    { i \in 1..Len(history) :
        /\ ImageBranch(history[i].path)
        /\ history[i].action # "error"
        /\ Files[history[i].path].phash = Files[path].phash }

\* C30: while dry_run is set or duplicate_mode is not "delete" no file is
\* deleted or moved to the trash, whatever calls of handle_duplicate are
\* made; every call that finds a duplicate appends its duplicate_info to
\* duplicates_found and returns it with a duplicate action, and in such a
\* configuration a file whose bytes (or image hash) were met before is found
\* to be one; on the non-image branch the path to keep is the first path
\* processed with these bytes and the path to delete is the current one
C30_NeverRemoves ==
    /\ [](Quiet => disk = DOMAIN Files /\ trash = {})
    /\ [][ (Len(handled') > Len(handled) /\ Last(handled').action # "clear")
           => LET path == Last(handled').path
                  before == SinceClear(handled)
                  same == SameBytes(before, path)
                  first == CHOOSE i \in same : \A j \in same : i <= j
              IN /\ returned'.action = Last(handled').action
                 /\ IF returned'.action \in DuplicateActions
                    THEN /\ duplicates_found' =
                              Append(duplicates_found, returned'.info)
                         /\ returned'.ref = returned'.info.to_keep
                    ELSE duplicates_found' = duplicates_found
                 /\ (Quiet /\ ImageBranch(path) /\ Files[path].phash # None
                       /\ SameHash(before, path) # {})
                    => returned'.action \in DuplicateActions
                 /\ (~ImageBranch(path) /\ path \in disk)
                    => IF same = {}
                       THEN returned'.action = "new"
                       ELSE /\ returned'.action = "duplicate_deleted"
                            /\ returned'.info.to_keep = before[first].path
                            /\ returned'.info.to_delete = path ]_vars

\* a dry run in delete mode has reported a.txt / b.TXT and then the larger
\* q.JPG over p.jpg, and every file is still there
C30_DryRunReported ==
    /\ handler.dry_run
    /\ handler.duplicate_mode = "delete"
    /\ Len(duplicates_found) = 2
    /\ duplicates_found[1].to_keep = "a.txt"
    /\ duplicates_found[1].to_delete = "b.TXT"
    /\ returned.action = "duplicate_kept_new"
    /\ returned.info.to_delete = "p.jpg"
    /\ disk = DOMAIN Files
    /\ trash = {}

====
